---------------------------- MODULE Spec2Model ----------------------------
(***************************************************************************)
(* A model of PydayNightFunkin's animation controller                      *)
(* (graphics/pnf_animation.py) and sprite (core/pnf_sprite.py).            *)
(*                                                                         *)
(* Time is counted in ticks of 1/TicksPerSecond seconds, pixels and        *)
(* frame rectangles are integers, a Vec2 is a pair <<x, y>>, Python's None *)
(* is the empty tuple for an optional Vec2 / animation and the string      *)
(* "None" for an optional name or texture.                                 *)
(***************************************************************************)
EXTENDS Integers, Sequences, FiniteSets, TLC

VARIABLES
    pyopt,       \* the interpreter runs with -O: assert statements are stripped
    anim,        \* the AnimationController object (its fields)
    last,        \* the last call made on the model's objects, and how it ended
    sinceQuery,  \* offset deltas handed to _set_offset since the last query_new_offset
    sprite,      \* a PNFSprite object (its fields, its interfacer, its context)
    started,     \* the number of effects started on the sprite so far; the n-th
                 \* effect started has the identity n
    cancelled,   \* the effects that remove_effect took out of sprite.effects
    fired,       \* for each effect, how often its on_complete was called
    log,         \* what the last call on the sprite did, step by step
    nwrites,     \* the number of attribute writes made on the sprite
    pane,        \* a DebugPane object, the main thread's place in its update, the messages
    game,        \* the Game object: its scene stack, its pending lists, the clock's calls
    character,   \* a Character object: its own fields and the tags of its animation
    container,   \* a PNFSpriteContainer object and the sprites added to it or not
    registry     \* a Registry object: its entries and its sources

\* The interpreter and the objects the calls on a controller or a sprite leave
\* alone
envVars == <<pyopt, pane, game, character, container, registry>>

\* The controller, the sprite and what is recorded about their calls
coreVars == <<anim, last, sinceQuery, sprite, started, cancelled, fired, log, nwrites>>

animVars == <<envVars, anim, sinceQuery>>

spriteVars == <<sprite, started, cancelled, fired, log, nwrites>>

vars == <<envVars, coreVars>>

---------------------------------------------------------------------------
(* Bounds and input sets                                                   *)

\* Ticks of model time per second, the least common multiple of the positive
\* FpsValues: 1/fps seconds is exactly TicksPerSecond \div fps ticks.
TicksPerSecond == 2 * 10

\* The longest dt (in ticks) handed to one update call.
MaxDt == 5

\* The most offset deltas left unqueried before the sprite queries again.
MaxPending == 2

\* The most effects started on the sprite.
MaxEffects == 2

\* The longest dt handed to one PNFSprite.update call, in half seconds.
MaxSpriteDt == 5

\* The most attribute writes made on the sprite.
MaxWrites == 2

\* The number of message labels of the debug pane (the game makes 8).
LineAmount == 2

\* The most messages handed to the debug pane.
MaxMessages == 4

\* The most scenes pushed onto the game's scene stack.
MaxScenes == 2

\* The longest dt handed to one Character.update call, in eighths of a second.
MaxCharacterDt == 3

\* The hold timer the model lets a character reach, in eighths of a second.
MaxHoldTimer == 12

\* The most writes to the x or y of the sprite container.
MaxMoves == 3

\* The most animations played between two plays of the same animation
MaxOthers == 2

\* The most scenes requested of a game on which overlays are pushed
MaxOverlays == 3

None == <<>>

Vec2Zero == <<0, 0>>

VAdd(a, b) == <<a[1] + b[1], a[2] + b[2]>>

VSub(a, b) == <<a[1] - b[1], a[2] - b[2]>>

\* Names handed to play: the registered ones and one that never is.
PlayNames == {"a", "b", "zz"}

\* FrameInfoTexture: a texture and its frame_info rectangle (x, y, w, h).
FIT(tex, fi) == [texture |-> tex, frame_info |-> fi]

Frames1 == << FIT("t0", <<1, 2, 9, 8>>) >>

Frames2 == << FIT("t1", <<0, 0, 10, 10>>), FIT("t2", <<2, 1, 8, 6>>) >>

Frames3 == << FIT("t3", <<0, 0, 10, 10>>), FIT("t4", <<2, 1, 7, 5>>),
              FIT("t5", <<3, 3, 13, 11>>) >>

\* An add call: its arguments.
AddArgs(name, anim_data, fps, loop, offset) ==
    [name |-> name, anim_data |-> anim_data, fps |-> fps, loop |-> loop,
     offset |-> offset]

\* The add calls made with a frame collection that has frames.
AddCalls ==
    { AddArgs("a", Frames2, 10, TRUE, None),
      AddArgs("a", Frames3, 10, FALSE, None),
      AddArgs("b", Frames3, 20, TRUE, <<3, 1>>),
      AddArgs("b", Frames1, 10, FALSE, <<3, 1>>),
      AddArgs("a", Frames2, 0, TRUE, None),
      AddArgs("b", Frames1, -10, FALSE, <<3, 1>>) }

\* The add calls made with an empty frame collection.
AddCallsEmpty ==
    { AddArgs("a", <<>>, 10, TRUE, None),
      AddArgs("b", <<>>, 10, FALSE, <<3, 1>>) }

DtValues == 0..MaxDt

---------------------------------------------------------------------------
(* AnimationController                                                     *)

\* OffsetAnimationFrame.__init__
OffsetAnimationFrame(image, duration, frame_info) ==
    [image |-> image, duration |-> duration, frame_info |-> frame_info]

\* PNFAnimation.__init__ (tags are not modelled: the controller never reads them)
PNFAnimation(frames, loop, offset) ==
    [frames |-> frames, loop |-> loop, offset |-> offset]

\* AnimationController.__init__
AnimationController ==
    [animations   |-> << >>,
     playing      |-> FALSE,
     current      |-> None,
     current_name |-> "None",
     base_box     |-> None,
     frame_idx    |-> 0,
     next_dt      |-> 0,
     frame_offset |-> Vec2Zero,
     new_offset   |-> None,
     new_texture  |-> "None"]

\* The result of a call: the object afterwards and the exception raised, if any.
Ok(c) == [c |-> c, raised |-> "None"]

Raise(c, exc) == [c |-> c, raised |-> exc]

\* current_frame: self.current.frames[self._frame_idx]
current_frame(c) == c.current[1].frames[c.frame_idx + 1]

\* (mutant) the alignment offset with the half difference rounded up
AlignOffsetHalfUp(fi, bb) ==
    << fi[1] - ((bb[1] - fi[3] + 1) \div 2), fi[2] - ((bb[2] - fi[4] + 1) \div 2) >>

\* The alignment offset of frame_info under base_box, as _get_post_animate_offset
\* computes it: Python's // on integers is floor division, as \div is, and round()
\* of the integer it yields is that integer.
AlignOffset(fi, bb) ==
    << fi[1] - ((bb[1] - fi[3]) \div 2), fi[2] - ((bb[2] - fi[4]) \div 2) >>

\* _get_post_animate_offset: stores the new frame offset, returns old - new.
GetPostAnimateOffset(c) ==
    LET new_frame_offset == AlignOffset(current_frame(c).frame_info, c.base_box)
    IN  [c   |-> [c EXCEPT !.frame_offset = new_frame_offset],
         ret |-> VSub(c.frame_offset, new_frame_offset)]

\* _set_base_box, called with a PNFAnimation: the box is (w - x, h - y) of frame 0.
SetBaseBox(c, animation) ==
    LET fi == animation.frames[1].frame_info
    IN  [c EXCEPT !.base_box = << fi[3] - fi[1], fi[4] - fi[2] >>]

\* _set_frame
SetFrame(c, frame) == [c EXCEPT !.new_texture = frame]

\* (mutant) _set_offset that overwrites the pending delta
SetOffsetOverwrite(c, offset) == [c EXCEPT !.new_offset = offset]

\* _set_offset
SetOffset(c, offset) ==
    IF c.new_offset = None
    THEN [c EXCEPT !.new_offset = offset]
    ELSE [c EXCEPT !.new_offset = VAdd(c.new_offset, offset)]

\* query_new_frame
QueryNewFrame(c) == [c |-> [c EXCEPT !.new_texture = "None"], ret |-> c.new_texture]

\* query_new_offset
QueryNewOffset(c) == [c |-> [c EXCEPT !.new_offset = None], ret |-> c.new_offset]

\* (mutant) _detach_animation without the whole-animation offset
DetachAnimationFrameOnly(c) ==
    [c   |-> [c EXCEPT !.frame_offset = Vec2Zero, !.playing = FALSE,
                       !.current = None, !.current_name = "None"],
     ret |-> c.frame_offset]

\* _detach_animation
DetachAnimation(c) ==
    LET offset_delta == IF c.current[1].offset # None
                        THEN VAdd(c.frame_offset, c.current[1].offset)
                        ELSE c.frame_offset
    IN  [c   |-> [c EXCEPT !.frame_offset = Vec2Zero, !.playing = FALSE,
                           !.current = None, !.current_name = "None"],
         ret |-> offset_delta]

\* _on_new_frame
OnNewFrame(c) ==
    LET c1 == SetFrame(c, current_frame(c).image)
        po == GetPostAnimateOffset(c1)
    IN  SetOffset(po.c, po.ret)

\* The least dt of the model (in ticks) that is too large for `dt -= _next_dt` to
\* change it. The floats of the code have 53 bits: from 2^53 times the frame
\* duration on, dt minus a frame duration rounds back to dt.
HugeDt == 2 ^ 20

\* `dt -= _next_dt` on floats: exact below HugeDt, absorbed from there on
FloatSub(dt, ndt) == IF dt >= HugeDt THEN dt ELSE dt - ndt

\* Subtracting the duration of any of the frames leaves dt as it is.
Absorbs(dt, frames) ==
    \A i \in DOMAIN frames :
        frames[i].duration > 0 /\ FloatSub(dt, frames[i].duration) = dt

\* (mutant) the loop of update with `while dt >= _next_dt`
RECURSIVE UpdateLoopGe(_, _, _, _, _)
UpdateLoopGe(c, dt, ndt, idx, changed) ==
    LET frames == c.current[1].frames
    IN  IF dt >= ndt
        THEN IF idx >= Len(frames) - 1 /\ ~c.current[1].loop
             THEN [c |-> [c EXCEPT !.playing = FALSE, !.frame_idx = idx],
                   raised |-> "None", on_new_frame |-> FALSE]
             ELSE LET idx1 == IF idx >= Len(frames) - 1 THEN 0 ELSE idx + 1
                  IN  IF idx1 + 1 > Len(frames)
                      THEN [c |-> [c EXCEPT !.frame_idx = idx1],
                            raised |-> "IndexError", on_new_frame |-> FALSE]
                      ELSE IF c.current[1].loop /\ Absorbs(dt, frames)
                           THEN \* dt never shrinks and the animation never ends
                                [c |-> [c EXCEPT !.frame_idx = idx1],
                                 raised |-> "NoReturn", on_new_frame |-> FALSE]
                           ELSE UpdateLoopGe(c, FloatSub(dt, ndt), frames[idx1 + 1].duration,
                                             idx1, TRUE)
        ELSE LET c1 == [c EXCEPT !.frame_idx = idx]
                 c2 == IF changed THEN OnNewFrame(c1) ELSE c1
             IN  [c |-> [c2 EXCEPT !.next_dt = ndt - dt],
                  raised |-> "None", on_new_frame |-> changed]

\* The loop of update, from `while dt > _next_dt` on: idx is self._frame_idx,
\* ndt the local _next_dt, changed the local frame_changed. The result also says
\* whether _on_new_frame ran.
RECURSIVE UpdateLoop(_, _, _, _, _)
UpdateLoop(c, dt, ndt, idx, changed) ==
    LET frames == c.current[1].frames
    IN  IF dt > ndt
        THEN IF idx >= Len(frames) - 1 /\ ~c.current[1].loop
             THEN \* Animation has ended: return before _on_new_frame and before
                  \* self._next_dt is stored
                  [c |-> [c EXCEPT !.playing = FALSE, !.frame_idx = idx],
                   raised |-> "None", on_new_frame |-> FALSE]
             ELSE LET idx1 == IF idx >= Len(frames) - 1 THEN 0 ELSE idx + 1
                  IN  IF idx1 + 1 > Len(frames)
                      THEN [c |-> [c EXCEPT !.frame_idx = idx1],
                            raised |-> "IndexError", on_new_frame |-> FALSE]
                      ELSE IF c.current[1].loop /\ Absorbs(dt, frames)
                           THEN \* dt never shrinks and the animation never ends
                                [c |-> [c EXCEPT !.frame_idx = idx1],
                                 raised |-> "NoReturn", on_new_frame |-> FALSE]
                           ELSE UpdateLoop(c, FloatSub(dt, ndt), frames[idx1 + 1].duration,
                                           idx1, TRUE)
        ELSE LET c1 == [c EXCEPT !.frame_idx = idx]
                 c2 == IF changed THEN OnNewFrame(c1) ELSE c1
             IN  [c |-> [c2 EXCEPT !.next_dt = ndt - dt],
                  raised |-> "None", on_new_frame |-> changed]

\* AnimationController.update
Update(c, dt) ==
    IF ~c.playing
    THEN [c |-> c, raised |-> "None", on_new_frame |-> FALSE]
    ELSE UpdateLoop(c, dt, c.next_dt, c.frame_idx, FALSE)

\* AnimationController.add, called with a sequence of FrameInfoTextures. opt: the
\* interpreter strips pyglet's `assert len(frames)` in Animation.__init__, the only
\* check of the frame count on this path.
Add(c, name, anim_data, fps, loop, offset, opt) ==
    IF fps <= 0
    THEN Raise(c, "ValueError")
    ELSE LET spf == TicksPerSecond \div fps
             frames == [i \in 1..Len(anim_data) |->
                           OffsetAnimationFrame(anim_data[i].texture, spf,
                                                anim_data[i].frame_info)]
             animation == PNFAnimation(frames, loop, offset)
             c1 == [c EXCEPT !.animations = (name :> animation) @@ c.animations]
         IN  IF Len(frames) = 0 /\ ~opt
             THEN Raise(c, "AssertionError")
             ELSE IF c1.base_box # None
                  THEN Ok(c1)
                  ELSE IF Len(frames) = 0
                       THEN Raise(c1, "IndexError")
                       ELSE Ok(SetBaseBox(c1, animation))

\* The offset delta play hands to _set_offset before the first frame is set.
PlayOffsetDelta(c, animation) ==
    LET detached == IF c.current # None THEN DetachAnimation(c).ret ELSE Vec2Zero
    IN  IF animation.offset # None THEN VSub(detached, animation.offset) ELSE detached

\* (mutant) the switch of play that leaves the base box alone
PlaySwitchKeepBox(c, animation, name) ==
    LET c1 == IF c.current # None THEN DetachAnimation(c).c ELSE c
        c2 == [c1 EXCEPT !.current = <<animation>>, !.current_name = name,
                         !.frame_idx = 0, !.playing = TRUE]
    IN  IF Len(animation.frames) = 0
        THEN c2
        ELSE [c2 EXCEPT !.next_dt = animation.frames[1].duration]

\* play, from "Set some variables for new animation" to self._next_dt = ...:
\* the controller switched to the registered animation, before any output is set.
PlaySwitch(c, animation, name) ==
    LET c1 == IF c.current # None THEN DetachAnimation(c).c ELSE c
        c2 == [c1 EXCEPT !.current = <<animation>>, !.current_name = name,
                         !.frame_idx = 0, !.playing = TRUE]
        c3 == IF animation.offset # None THEN SetBaseBox(c2, animation) ELSE c2
    IN  IF Len(animation.frames) = 0
        THEN c2
        ELSE [c3 EXCEPT !.next_dt = animation.frames[1].duration]

\* (mutant) play without the early return for the animation already current
PlayRestart(c, name, force) ==
    IF name \notin DOMAIN c.animations
    THEN Raise(IF c.current # None THEN DetachAnimation(c).c ELSE c, "KeyError")
    ELSE LET animation == c.animations[name]
             c4 == PlaySwitch(c, animation, name)
         IN  IF Len(animation.frames) = 0
             THEN Raise(c4, "IndexError")
             ELSE Ok(OnNewFrame(SetOffset(c4, PlayOffsetDelta(c, animation))))

\* AnimationController.play
Play(c, name, force) ==
    IF c.current # None /\ c.current_name = name /\ ~force
    THEN Ok([c EXCEPT !.playing = TRUE])
    ELSE IF name \notin DOMAIN c.animations
         THEN Raise(IF c.current # None THEN DetachAnimation(c).c ELSE c, "KeyError")
         ELSE LET animation == c.animations[name]
                  c4 == PlaySwitch(c, animation, name)
              IN  IF Len(animation.frames) = 0
                  THEN Raise(c4, "IndexError")
                  ELSE Ok(OnNewFrame(SetOffset(c4, PlayOffsetDelta(c, animation))))

---------------------------------------------------------------------------
(* PNFSprite: attributes, context and interfacer                           *)
(*                                                                         *)
(* The sprite's numbers are integers. SubPx scales the values tweens run   *)
(* between, so that every value a tween of the model writes is an integer. *)
(* The sprite's time is counted in half seconds.                           *)

SubPx == 2 ^ MaxEffects

Rep4(v) == v \o v \o v \o v

\* The image a sprite is made with: its texture and (width, height).
Image == [texture |-> "tex0", dims |-> <<8, 6>>]

\* image.setter: the frame collection of one frame made of an image
FrameCollection(image) == <<[texture |-> image.texture, dims |-> image.dims]>>

\* SceneContext(): the default context (batch, group, cameras).
DefaultContext ==
    [batch |-> "batch0", group |-> [parent |-> "None"], cameras |-> <<"dummy">>]

\* The parent contexts handed to set_context.
ParentContexts ==
    [batch : {"batch0", "batch1"}, group : {"scene", "layer"},
     cameras : {<<"main">>, <<"main", "hud">>}]

\* PNFGroup(parent)
PNFGroup(parent) == [parent |-> parent]

\* _build_gl_state: the descriptor of this sprite for the camera's ubo
BuildGLState(s, cam_ubo) ==
    [program |-> "PNFSprite", ubo |-> cam_ubo, texture_unit |-> "GL_TEXTURE0",
     texture |-> s.texture, enable |-> "GL_BLEND",
     blend |-> <<"GL_SRC_ALPHA", "GL_ONE_MINUS_SRC_ALPHA">>]

\* {camera: self._build_gl_state(camera.ubo) for camera in cameras}
StatesFor(s, cameras) ==
    [cam \in {cameras[i] : i \in 1..Len(cameras)} |-> BuildGLState(s, cam)]

\* The interfacer batch.add_indexed returns (the channels the sprite writes).
AddIndexed(batch, group, states, data) ==
    [batch |-> batch, group |-> group, states |-> states, data |-> data,
     visible |-> TRUE]

\* interfacer.set_data(channel, values)
SetData(i, channel, values) == [i EXCEPT !.data[channel] = values]

\* interfacer.set_visibility(visible)
SetVisibility(i, visible) == [i EXCEPT !.visible = visible]

\* interfacer.migrate(batch, group, states): the data moves as it is; states of
\* None keeps the descriptors.
Migrate(i, batch, group, states) ==
    [i EXCEPT !.batch = batch, !.group = group,
              !.states = IF states = None THEN @ ELSE states[1]]

\* _create_interfacer
CreateInterfacer(s) ==
    [s EXCEPT !.interfacer =
        AddIndexed(s.context.batch, s.context.group, StatesFor(s, s.context.cameras),
            [translate     |-> Rep4(<<s.x, s.y>>),
             offset        |-> Rep4(s.offset),
             flip          |-> Rep4(<<s.flip_x, s.flip_y>>),
             scroll_factor |-> Rep4(s.scroll_factor),
             origin        |-> Rep4(s.origin),
             rotation      |-> Rep4(<<s.rotation>>),
             scale         |-> Rep4(<<s.scale * s.scale_x, s.scale * s.scale_y>>),
             colors        |-> Rep4(s.color \o <<s.opacity>>)])]

\* origin.setter
SetOrigin(s, new_origin) ==
    [s EXCEPT !.origin = new_origin,
              !.interfacer = SetData(@, "origin", Rep4(new_origin))]

\* center_origin: half the frame's dimensions (even in the model)
CenterOrigin(s, dims) == SetOrigin(s, <<dims[1] \div 2, dims[2] \div 2>>)

\* WorldObject.__init__ and PNFSprite.__init__(image, x, y) with no context
PNFSprite(image, x, y) ==
    LET s0 == [x |-> x, y |-> y, rotation |-> 0, scale |-> 1, scale_x |-> 1,
               scale_y |-> 1, scroll_factor |-> <<1, 1>>,
               movement |-> None, effects |-> <<>>,
               origin |-> <<0, 0>>, offset |-> <<0, 0>>,
               flip_x |-> FALSE, flip_y |-> FALSE,
               interfacer |-> None, color |-> <<255, 255, 255>>, opacity |-> 255,
               texture |-> image.texture, context |-> DefaultContext,
               frames |-> FrameCollection(image), animations |-> {}]
    IN  CenterOrigin(CreateInterfacer(s0), image.dims)

\* _set_frame(idx): the frame's texture is shown; a texture other than the one
\* shown before gets new descriptors for the cameras of the context.
SpriteSetFrame(s, idx) ==
    LET texture == s.frames[idx + 1].texture
        s1 == [s EXCEPT !.texture = texture]
    IN  IF texture # s.texture
        THEN [s1 EXCEPT !.interfacer.states = StatesFor(s1, s.context.cameras)]
        ELSE s1

\* (mutant) frames.setter that finds the collection empty only at frames[0]
SetFramesLateCheck(s, new_frames) ==
    LET s1 == [s EXCEPT !.animations = {}, !.frames = new_frames]
    IN  IF Len(new_frames) = 0
        THEN Raise(s1, "IndexError")
        ELSE Ok(CenterOrigin(SpriteSetFrame(s1, 0), new_frames[1].dims))

\* frames.setter; delete_animations leaves the sprite's controller with no
\* animation registered.
SetFrames(s, new_frames) ==
    IF Len(new_frames) = 0
    THEN Raise(s, "ValueError")
    ELSE LET s1 == [s EXCEPT !.animations = {}, !.frames = new_frames]
         IN  Ok(CenterOrigin(SpriteSetFrame(s1, 0), new_frames[1].dims))

\* (mutant) set_context that makes the sprite anew in the parent context
SetContextRecreate(s, parent_context) ==
    [PNFSprite(Image, 0, 0) EXCEPT !.context = parent_context]

\* (mutant) set_context that makes the new group and leaves the context's cameras
SetContextKeepCameras(s, parent_context) ==
    LET change_batch  == parent_context.batch # s.context.batch
        rebuild_group == \/ parent_context.cameras # s.context.cameras
                         \/ parent_context.group # s.context.group.parent
        new_states == IF change_batch
                      THEN << StatesFor(s, parent_context.cameras) >>
                      ELSE None
        ctx1 == IF change_batch
                THEN [s.context EXCEPT !.batch = parent_context.batch]
                ELSE s.context
        ctx2 == IF rebuild_group
                THEN [ctx1 EXCEPT !.group = PNFGroup(parent_context.group)]
                ELSE ctx1
    IN  [s EXCEPT !.context = ctx2,
                  !.interfacer = IF change_batch \/ rebuild_group
                                 THEN Migrate(@, ctx2.batch, ctx2.group, new_states)
                                 ELSE @]

\* The calls set_context makes, in their order: _build_gl_state for each camera
\* of the parent, PNFGroup, interfacer.migrate
SetContextCalls(s, parent_context) ==
    LET change_batch  == parent_context.batch # s.context.batch
        rebuild_group == \/ parent_context.cameras # s.context.cameras
                         \/ parent_context.group # s.context.group.parent
    IN  (IF change_batch
         THEN [i \in 1..Len(parent_context.cameras) |->
                  [call |-> "_build_gl_state", arg |-> parent_context.cameras[i]]]
         ELSE << >>)
        \o (IF rebuild_group
            THEN << [call |-> "PNFGroup", arg |-> parent_context.group] >>
            ELSE << >>)
        \o (IF change_batch \/ rebuild_group
            THEN << [call |-> "migrate", arg |-> parent_context.batch] >>
            ELSE << >>)

\* PNFSprite.set_context
SetContext(s, parent_context) ==
    LET change_batch  == parent_context.batch # s.context.batch
        rebuild_group == \/ parent_context.cameras # s.context.cameras
                         \/ parent_context.group # s.context.group.parent
        new_states == IF change_batch
                      THEN << StatesFor(s, parent_context.cameras) >>
                      ELSE None
        ctx1 == IF change_batch
                THEN [s.context EXCEPT !.batch = parent_context.batch]
                ELSE s.context
        ctx2 == IF rebuild_group
                THEN [ctx1 EXCEPT !.cameras = parent_context.cameras,
                                  !.group = PNFGroup(parent_context.group)]
                ELSE ctx1
    IN  [s EXCEPT !.context = ctx2,
                  !.interfacer = IF change_batch \/ rebuild_group
                                 THEN Migrate(@, ctx2.batch, ctx2.group, new_states)
                                 ELSE @]

\* x.setter
SetX(s, new_x) ==
    [s EXCEPT !.x = new_x,
              !.interfacer = SetData(@, "translate", Rep4(<<new_x, s.y>>))]

\* y.setter
SetY(s, new_y) ==
    [s EXCEPT !.y = new_y,
              !.interfacer = SetData(@, "translate", Rep4(<<s.x, new_y>>))]

\* position.setter
SetPosition(s, new_position) ==
    [s EXCEPT !.x = new_position[1], !.y = new_position[2],
              !.interfacer = SetData(@, "translate", Rep4(new_position))]

\* rotation.setter
SetRotation(s, new_rotation) ==
    [s EXCEPT !.rotation = new_rotation,
              !.interfacer = SetData(@, "rotation", Rep4(<<new_rotation>>))]

\* scale_x.setter
SetScaleX(s, new_scale_x) ==
    [s EXCEPT !.scale_x = new_scale_x,
              !.interfacer = SetData(@, "scale",
                  Rep4(<<s.scale * new_scale_x, s.scale * s.scale_y>>))]

\* scale_y.setter
SetScaleY(s, new_scale_y) ==
    [s EXCEPT !.scale_y = new_scale_y,
              !.interfacer = SetData(@, "scale",
                  Rep4(<<s.scale * s.scale_x, s.scale * new_scale_y>>))]

\* scale.setter
SetScale(s, new_scale) ==
    [s EXCEPT !.scale = new_scale,
              !.interfacer = SetData(@, "scale",
                  Rep4(<<new_scale * s.scale_x, new_scale * s.scale_y>>))]

\* offset.setter
SetSpriteOffset(s, new_offset) ==
    [s EXCEPT !.offset = new_offset,
              !.interfacer = SetData(@, "offset", Rep4(new_offset))]

\* scroll_factor.setter
SetScrollFactor(s, new_sf) ==
    [s EXCEPT !.scroll_factor = new_sf,
              !.interfacer = SetData(@, "scroll_factor", Rep4(new_sf))]

\* color.setter
SetColor(s, new_color) ==
    [s EXCEPT !.color = new_color,
              !.interfacer = SetData(@, "colors", Rep4(new_color \o <<s.opacity>>))]

\* opacity.setter: int(new_opacity) of the integers of the model is the number
SetOpacity(s, new_opacity) ==
    [s EXCEPT !.opacity = new_opacity,
              !.interfacer = SetData(@, "colors", Rep4(s.color \o <<new_opacity>>))]

\* (mutant) _set_rgba that stores the opacity without the opacity setter
SetRgbaFieldsOnly(s, new_rgba) ==
    [s EXCEPT !.color = SubSeq(new_rgba, 1, 3), !.opacity = new_rgba[4]]

\* _set_rgba, the setter of rgba: the colour is stored, the opacity goes through
\* opacity.setter, which writes both to the interfacer.
SetRgba(s, new_rgba) ==
    SetOpacity([s EXCEPT !.color = SubSeq(new_rgba, 1, 3)], new_rgba[4])

\* flip_x.setter
SetFlipX(s, new_flip_x) ==
    [s EXCEPT !.flip_x = new_flip_x,
              !.interfacer = SetData(@, "flip", Rep4(<<new_flip_x, s.flip_y>>))]

\* flip_y.setter
SetFlipY(s, new_flip_y) ==
    [s EXCEPT !.flip_y = new_flip_y,
              !.interfacer = SetData(@, "flip", Rep4(<<s.flip_x, new_flip_y>>))]

\* visible.setter
SetVisible(s, visible) == [s EXCEPT !.interfacer = SetVisibility(@, visible)]

\* visible (getter): self._interfacer._visible
Visible(s) == s.interfacer.visible

\* setattr(sprite, attr_name, value) for the names of _TWEEN_ATTR_NAME_MAP
SetAttr(s, attr_name, value) ==
    CASE attr_name = "x"        -> SetX(s, value)
      [] attr_name = "y"        -> SetY(s, value)
      [] attr_name = "rotation" -> SetRotation(s, value)
      [] attr_name = "opacity"  -> SetOpacity(s, value)
      [] attr_name = "scale"    -> SetScale(s, value)
      [] attr_name = "scale_x"  -> SetScaleX(s, value)
      [] attr_name = "scale_y"  -> SetScaleY(s, value)

\* getattr(sprite, attr_name) for the names of _TWEEN_ATTR_NAME_MAP
GetAttr(s, attr_name) ==
    CASE attr_name = "x"        -> s.x
      [] attr_name = "y"        -> s.y
      [] attr_name = "rotation" -> s.rotation
      [] attr_name = "opacity"  -> s.opacity
      [] attr_name = "scale"    -> s.scale
      [] attr_name = "scale_x"  -> s.scale_x
      [] attr_name = "scale_y"  -> s.scale_y

\* What the sprite's accessors return: x, y, position, rotation, scale, scale_x,
\* scale_y, scroll_factor, origin, offset, color, opacity, flip_x, flip_y.
Attributes(s) ==
    [x |-> s.x, y |-> s.y, position |-> <<s.x, s.y>>, rotation |-> s.rotation,
     scale |-> s.scale, scale_x |-> s.scale_x, scale_y |-> s.scale_y,
     scroll_factor |-> s.scroll_factor, origin |-> s.origin, offset |-> s.offset,
     color |-> s.color, opacity |-> s.opacity, flip_x |-> s.flip_x,
     flip_y |-> s.flip_y]

---------------------------------------------------------------------------
(* Effects                                                                 *)
(*                                                                         *)
(* An effect object is a record; its id stands for the object's identity.  *)
(* on_complete is None or a callable. The callables of the model do        *)
(* nothing ("noop"), call sprite.remove_effect(target) ("remove") or call  *)
(* sprite.remove_effect() ("clear").                                       *)

NoCallback == [cb |-> "None", target |-> 0]

Callback(cb, target) == [cb |-> cb, target |-> target]

EffectIds(effects) == {effects[i].id : i \in 1..Len(effects)}

\* list.remove(e) where e is in the list: the first entry that is e goes.
RECURSIVE ListRemove(_, _)
ListRemove(effects, id) ==
    IF effects = <<>> THEN <<>>
    ELSE IF Head(effects).id = id THEN Tail(effects)
    ELSE <<Head(effects)>> \o ListRemove(Tail(effects), id)

\* The element of a one-element set. Only({F(v) : v \in {e}}) is F(e) with e
\* worked out once, where LET v == e IN F(v) works e out at every use of v.
Only(S) == CHOOSE v \in S : TRUE

clamp(v, lo, hi) == IF v < lo THEN lo ELSE IF v > hi THEN hi ELSE v

\* (mutant) is_finished that asks for more than the duration
IsFinishedStrict(e) == e.cur_time > e.duration

\* Effect.is_finished
IsFinished(e) == e.cur_time >= e.duration

\* _Tween.__init__ (Effect.__init__ has accepted the duration)
Tween(id, tween_func, attr_map, duration, on_complete) ==
    [id |-> id, kind |-> "tween", on_complete |-> on_complete,
     duration |-> duration, cur_time |-> 0,
     tween_func |-> tween_func, attr_map |-> attr_map]

\* Flicker.__init__ (Effect.__init__ has accepted the duration, and the interval
\* is positive)
Flicker(id, interval, start_visibility, end_visibility, duration, on_complete) ==
    [id |-> id, kind |-> "flicker", on_complete |-> on_complete,
     duration |-> duration, cur_time |-> 0,
     interval |-> interval, end_visibility |-> end_visibility,
     next_toggle |-> interval, visible |-> start_visibility]

\* Toggle.__init__ (Effect.__init__ has accepted the duration, and the interval
\* is positive). interval is the period handed in; the code stores pi/interval.
Toggle(id, interval, start_active, end_active, duration, on_toggle_on, on_toggle_off, on_complete) ==
    [id |-> id, kind |-> "toggle", on_complete |-> on_complete,
     duration |-> duration, cur_time |-> 0,
     cur_state |-> start_active, invert |-> IF start_active THEN 1 ELSE 0 - 1,
     interval |-> interval, end_active |-> end_active,
     on_toggle_on |-> on_toggle_on, on_toggle_off |-> on_toggle_off]

\* tween_func(t) for t = num/den as <<num, den>>
TweenFunc(tween_func, t) ==
    CASE tween_func = "linear" -> t

\* v_ini + v_diff*progress for progress = <<num, den>>
TweenValue(v_ini, v_diff, progress) ==
    v_ini + (v_diff * progress[1]) \div progress[2]

\* The loop of _Tween.update over attr_map.items(), in insertion order
RECURSIVE TweenWrite(_, _, _)
TweenWrite(s, attr_map, progress) ==
    IF attr_map = <<>> THEN s
    ELSE LET a == Head(attr_map)
         IN  TweenWrite(SetAttr(s, a.name, TweenValue(a.v_ini, a.v_diff, progress)),
                        Tail(attr_map), progress)

\* (mutant) _Tween.update without the clamp
TweenUpdateNoClamp(e, dt, s) ==
    LET e1 == [e EXCEPT !.cur_time = @ + dt]
        progress == TweenFunc(e.tween_func, <<e1.cur_time, e1.duration>>)
    IN  [e |-> e1, s |-> TweenWrite(s, e.attr_map, progress)]

\* _Tween.update
TweenUpdate(e, dt, s) ==
    LET e1 == [e EXCEPT !.cur_time = @ + dt]
        progress == TweenFunc(e.tween_func,
                              <<clamp(e1.cur_time, 0, e1.duration), e1.duration>>)
    IN  [e |-> e1, s |-> TweenWrite(s, e.attr_map, progress)]

\* The while loop of Flicker.update
RECURSIVE NextToggle(_, _, _)
NextToggle(cur_time, next_toggle, interval) ==
    IF cur_time >= next_toggle
    THEN NextToggle(cur_time, next_toggle + interval, interval)
    ELSE next_toggle

\* (mutant) Flicker.update that goes on toggling when the flicker is finished
FlickerUpdateNoEnd(e, dt, s) ==
    LET e1 == [e EXCEPT !.cur_time = @ + dt]
    IN  IF e1.cur_time >= e1.next_toggle
        THEN LET e2 == [e1 EXCEPT
                           !.next_toggle = NextToggle(e1.cur_time, @, e1.interval),
                           !.visible = ~@]
             IN  [e |-> e2, s |-> SetVisible(s, e2.visible)]
        ELSE [e |-> e1, s |-> s]

\* Flicker.update
FlickerUpdate(e, dt, s) ==
    LET e1 == [e EXCEPT !.cur_time = @ + dt]
    IN  IF IsFinished(e1)
        THEN [e |-> e1, s |-> SetVisible(s, e1.end_visibility)]
        ELSE IF e1.cur_time >= e1.next_toggle
             THEN LET e2 == [e1 EXCEPT
                                !.next_toggle = NextToggle(e1.cur_time, @, e1.interval),
                                !.visible = ~@]
                  IN  [e |-> e2, s |-> SetVisible(s, e2.visible)]
             ELSE [e |-> e1, s |-> s]

\* (mutant) remove_effect without the try/except around list.remove
RECURSIVE RemoveEffectNoExcept(_, _)
RemoveEffectNoExcept(s, effects) ==
    IF effects = <<>> THEN Ok(s)
    ELSE IF Head(effects) \in EffectIds(s.effects)
         THEN RemoveEffectNoExcept(
                  [s EXCEPT !.effects = ListRemove(@, Head(effects))], Tail(effects))
         ELSE Raise(s, "ValueError")

\* The loop of remove_effect over the effects handed in
RECURSIVE RemoveEach(_, _)
RemoveEach(s, effects) ==
    IF effects = <<>> THEN Ok(s)
    ELSE IF Head(effects) \in EffectIds(s.effects)
         THEN RemoveEach([s EXCEPT !.effects = ListRemove(@, Head(effects))],
                         Tail(effects))
         ELSE \* except ValueError: pass
              RemoveEach(s, Tail(effects))

\* PNFSprite.remove_effect(*effects), effects the identities handed in
RemoveEffect(s, effects) ==
    IF effects = <<>>
    THEN Ok([s EXCEPT !.effects = <<>>])
    ELSE RemoveEach(s, effects)

\* The effects a remove_effect call took out of the list.
Removed(s, s1) == EffectIds(s.effects) \ EffectIds(s1.effects)

\* Calling on_complete, on_toggle_on or on_toggle_off: what the callable does to
\* the sprite.
RunCallback(s, callback) ==
    CASE callback.cb = "noop"   -> s
      [] callback.cb = "remove" -> RemoveEffect(s, <<callback.target>>).c
      [] callback.cb = "clear"  -> RemoveEffect(s, <<>>).c

\* The sign of sin(cur_time * pi/interval) as the code computes it, cur_time >= 0.
\* Where cur_time is a multiple of the interval the float sine is a rounding
\* residue and not zero (sin(pi) = 1.2e-16, sin(2*pi) = -2.4e-16): for the
\* intervals and times of the model it has the sign of the half period that ends
\* there. sin(0.0) is 0.0.
SinSign(cur_time, interval) ==
    IF cur_time = 0 THEN 0
    ELSE IF ((cur_time - 1) \div interval) % 2 = 0 THEN 1 ELSE 0 - 1

\* (mutant) Toggle.update that calls back whenever the computed state is on or
\* off, changed or not
ToggleUpdateEveryTick(e, dt, s) ==
    LET e1 == [e EXCEPT !.cur_time = @ + dt]
        new_state == SinSign(e1.cur_time, e1.interval) * e1.invert > 0
    IN  [e |-> [e1 EXCEPT !.cur_state = new_state], s |-> s,
         called |-> IF new_state
                    THEN IF e1.on_toggle_on.cb # "None" THEN "on_toggle_on" ELSE "None"
                    ELSE IF e1.on_toggle_off.cb # "None" THEN "on_toggle_off"
                         ELSE "None"]

\* Toggle.update; called is the callback it called, "None" if it called none, s
\* the sprite as the callback left it.
ToggleUpdate(e, dt, s) ==
    LET e1 == [e EXCEPT !.cur_time = @ + dt]
        new_state == SinSign(e1.cur_time, e1.interval) * e1.invert > 0
        callback == IF new_state THEN e1.on_toggle_on ELSE e1.on_toggle_off
    IN  IF e1.cur_state = new_state
        THEN [e |-> e1, s |-> s, called |-> "None"]
        ELSE [e |-> [e1 EXCEPT !.cur_state = new_state],
              s |-> IF callback.cb # "None" THEN RunCallback(s, callback) ELSE s,
              called |-> IF new_state
                         THEN IF e1.on_toggle_on.cb # "None" THEN "on_toggle_on"
                              ELSE "None"
                         ELSE IF e1.on_toggle_off.cb # "None" THEN "on_toggle_off"
                              ELSE "None"]

\* effect.update(dt, sprite)
EffectUpdate(e, dt, s) ==
    CASE e.kind = "tween"   -> TweenUpdate(e, dt, s)
      [] e.kind = "flicker" -> FlickerUpdate(e, dt, s)
      [] e.kind = "toggle"  -> ToggleUpdate(e, dt, s)

\* The log entry of the callback a Toggle.update called
ToggleEvents(r) ==
    IF r.e.kind = "toggle" /\ r.called # "None"
    THEN <<[ev |-> r.called, e |-> r.e, was_cancelled |-> FALSE]>>
    ELSE <<>>

\* What went on in a call, for the log: the effect it concerns and, for an
\* on_complete call, whether remove_effect had removed that effect before.
Event(ev, e, was_cancelled) == [ev |-> ev, e |-> e, was_cancelled |-> was_cancelled]

\* The bookkeeping threaded through a call on the sprite.
Book(c, f, l) == [cancelled |-> c, fired |-> f, log |-> l]

\* The effect object e after its update, seen through the list: the entry that
\* is e, if the list still has it, shows the new fields.
StoreEffect(effects, e) ==
    [k \in 1..Len(effects) |-> IF effects[k].id = e.id THEN e ELSE effects[k]]

\* The first loop of PNFSprite.update: `for effect in self.effects` by index i
\* (the list iterator hands out self.effects[i] while i is below the length the
\* list has then), finished the local finished_effects.
RECURSIVE UpdateEffects(_, _, _, _, _)
UpdateEffects(s, dt, i, finished, b) ==
    IF i >= Len(s.effects)
    THEN [s |-> s, finished |-> finished, b |-> b]
    ELSE Only({ UpdateEffects([r.s EXCEPT !.effects = StoreEffect(@, r.e)], dt, i + 1,
                    IF IsFinished(r.e) THEN Append(finished, r.e) ELSE finished,
                    [b EXCEPT !.log = Append(@, Event("update", r.e, FALSE))
                                         \o ToggleEvents(r),
                              !.cancelled = @ \cup Removed(s, r.s)])
                : r \in {EffectUpdate(s.effects[i + 1], dt, s)} })

\* One round of the second loop of PNFSprite.update, s1 the sprite after
\* `if effect.on_complete is not None: effect.on_complete()`: the bookkeeping,
\* then self.effects.remove(effect), except ValueError: pass
Completed(s, s1, e, b) ==
    LET call == e.on_complete.cb # "None"
        gone == e.id \notin EffectIds(s1.effects)
        l1 == IF call
              THEN Append(b.log, Event("on_complete", e, e.id \in b.cancelled))
              ELSE b.log
    IN  [s |-> [s1 EXCEPT !.effects = ListRemove(@, e.id)],
         b |-> Book(IF call THEN b.cancelled \cup Removed(s, s1) ELSE b.cancelled,
                    IF call THEN [b.fired EXCEPT ![e.id] = @ + 1] ELSE b.fired,
                    IF gone THEN l1 ELSE Append(l1, Event("discard", e, FALSE)))]

\* The second loop of PNFSprite.update: `for effect in finished_effects`
RECURSIVE Complete(_, _, _)
Complete(s, finished, b) ==
    IF finished = <<>>
    THEN [s |-> s, b |-> b]
    ELSE Only({ Complete(r.s, Tail(finished), r.b)
                : r \in { Completed(s, s1, Head(finished), b)
                          : s1 \in { IF Head(finished).on_complete.cb # "None"
                                     THEN RunCallback(s, Head(finished).on_complete)
                                     ELSE s } } })

\* Movement(velocity, acceleration)
Movement(velocity, acceleration) == [velocity |-> velocity, acceleration |-> acceleration]

\* One axis of Movement.update, dt in half seconds: vel_delta = 0.5 * acc * dt,
\* the position moves by (vel + vel_delta) * dt, the velocity ends at
\* vel + 2 * vel_delta. The values of the model divide without remainder.
MovementAxis(vel, acc, dt) ==
    LET vel_delta == (acc * dt) \div 4
    IN  [vel |-> vel + 2 * vel_delta, pos_delta |-> ((vel + vel_delta) * dt) \div 2]

\* Movement.update
MovementUpdate(m, dt) ==
    LET ax == MovementAxis(m.velocity[1], m.acceleration[1], dt)
        ay == MovementAxis(m.velocity[2], m.acceleration[2], dt)
    IN  [m   |-> [m EXCEPT !.velocity = <<ax.vel, ay.vel>>],
         ret |-> <<ax.pos_delta, ay.pos_delta>>]

\* The log entry of a step of update that concerns no effect
NoEffect == [id |-> 0, kind |-> "None"]

\* PNFSprite.update up to `if not self.effects`: self.animation.update(dt) (no
\* animation plays on the model's sprite: the call changes nothing), then the
\* movement, if there is one, writes the position.
Move(s, dt, b) ==
    LET b1 == [b EXCEPT !.log = Append(@, Event("animation", NoEffect, FALSE))]
    IN  IF s.movement = None
        THEN [s |-> s, b |-> b1]
        ELSE LET r == MovementUpdate(s.movement[1], dt)
                 s1 == [s EXCEPT !.movement = <<r.m>>]
             IN  [s |-> SetPosition(s1, <<s.x + r.ret[1], s.y + r.ret[2]>>),
                  b |-> [b1 EXCEPT !.log = Append(@, Event("movement", NoEffect, FALSE))]]

\* The two loops of PNFSprite.update, from `if not self.effects` on
Effects(s, dt, b) ==
    IF s.effects = <<>>
    THEN [s |-> s, b |-> b]
    ELSE Only({ Complete(u.s, u.finished, u.b)
                : u \in {UpdateEffects(s, dt, 0, <<>>, b)} })

\* (mutant) PNFSprite.update that moves the sprite after the effects
SpriteUpdateMoveLast(s, dt, b) ==
    Only({ Move(r.s, dt, r.b) : r \in {Effects(s, dt, b)} })

\* PNFSprite.update
SpriteUpdate(s, dt, b) ==
    Only({ Effects(m.s, dt, m.b) : m \in {Move(s, dt, b)} })

\* start_movement(velocity, acceleration)
StartMovement(s, velocity, acceleration) ==
    [s EXCEPT !.movement =
        <<Movement(velocity, IF acceleration = None THEN <<0, 0>> ELSE acceleration)>>]

\* stop_movement
StopMovement(s) == [s EXCEPT !.movement = None]

\* start_tween(tween_func, {attribute: target_value}, duration, on_complete);
\* attributes is the sequence of the dict's items.
StartTween(s, id, tween_func, attributes, duration, on_complete) ==
    LET attr_map == [i \in 1..Len(attributes) |->
                        [name   |-> attributes[i][1],
                         v_ini  |-> GetAttr(s, attributes[i][1]),
                         v_diff |-> attributes[i][2] - GetAttr(s, attributes[i][1])]]
    IN  IF duration <= 0
        THEN Raise(s, "ValueError")
        ELSE Ok([s EXCEPT !.effects =
                    Append(@, Tween(id, tween_func, attr_map, duration, on_complete))])

\* start_flicker(duration, interval, end_visibility, on_complete)
StartFlicker(s, id, duration, interval, end_visibility, on_complete) ==
    IF duration <= 0 \/ interval <= 0
    THEN Raise(s, "ValueError")
    ELSE Ok([s EXCEPT !.effects =
                Append(@, Flicker(id, interval, Visible(s), end_visibility,
                                  duration, on_complete))])

\* start_toggle(duration, interval, start_status, end_status, on_toggle_on,
\* on_toggle_off, on_complete)
StartToggle(s, id, duration, interval, start_status, end_status, on_toggle_on, on_toggle_off, on_complete) ==
    IF duration <= 0 \/ interval <= 0
    THEN Raise(s, "ValueError")
    ELSE Ok([s EXCEPT !.effects =
                Append(@, Toggle(id, interval, start_status, end_status, duration,
                                 on_toggle_on, on_toggle_off, on_complete))])

---------------------------------------------------------------------------
(* The calls made on a controller                                          *)

Call(op, args, raised) == [op |-> op, args |-> args, raised |-> raised]

TypeOK ==
    /\ pyopt \in BOOLEAN
    /\ anim.playing \in BOOLEAN
    /\ anim.frame_idx \in Nat
    /\ anim.next_dt \in Nat

InitAnim ==
    /\ anim = AnimationController
    /\ last = Call("__init__", <<>>, "None")
    /\ sinceQuery = <<>>

\* add(name, anim_data, fps, loop, offset), the arguments drawn from calls
DoAdd(calls) ==
    \E a \in calls :
        LET r == Add(anim, a.name, a.anim_data, a.fps, a.loop, a.offset, pyopt)
        IN  /\ anim' = r.c
            /\ last' = Call("add", a, r.raised)
            /\ UNCHANGED <<envVars, sinceQuery, spriteVars>>

\* The deltas a play call hands to _set_offset, in the order of the calls.
PlayDeltas(c, name, force) ==
    IF \/ c.current # None /\ c.current_name = name /\ ~force
       \/ Play(c, name, force).raised # "None"
    THEN <<>>
    ELSE LET animation == c.animations[name]
         IN  << PlayOffsetDelta(c, animation),
                GetPostAnimateOffset(PlaySwitch(c, animation, name)).ret >>

\* The deltas an update call hands to _set_offset.
UpdateDeltas(c, dt) ==
    LET r == Update(c, dt)
    IN  IF r.on_new_frame THEN << VSub(c.frame_offset, r.c.frame_offset) >> ELSE <<>>

DoPlay ==
    \E name \in PlayNames, force \in BOOLEAN :
        LET r == Play(anim, name, force)
        IN  /\ Len(sinceQuery) < MaxPending
            /\ anim' = r.c
            /\ last' = Call("play", <<name, force>>, r.raised)
            /\ sinceQuery' = sinceQuery \o PlayDeltas(anim, name, force)
            /\ UNCHANGED <<envVars, spriteVars>>

DoUpdate ==
    \E dt \in DtValues :
        LET r == Update(anim, dt)
        IN  /\ Len(sinceQuery) < MaxPending
            /\ anim' = r.c
            /\ last' = Call("update", <<dt>>, r.raised)
            /\ sinceQuery' = sinceQuery \o UpdateDeltas(anim, dt)
            /\ UNCHANGED <<envVars, spriteVars>>

DoQueryNewFrame ==
    LET r == QueryNewFrame(anim)
    IN  /\ anim' = r.c
        /\ last' = Call("query_new_frame", <<r.ret>>, "None")
        /\ UNCHANGED <<envVars, sinceQuery, spriteVars>>

DoQueryNewOffset ==
    LET r == QueryNewOffset(anim)
    IN  /\ anim' = r.c
        /\ last' = Call("query_new_offset", <<r.ret>>, "None")
        /\ sinceQuery' = <<>>
        /\ UNCHANGED <<envVars, spriteVars>>

NextAnim ==
    \/ DoAdd(AddCalls)
    \/ DoPlay
    \/ DoUpdate
    \/ DoQueryNewFrame
    \/ DoQueryNewOffset

DoAddEmpty == DoAdd(AddCallsEmpty)

---------------------------------------------------------------------------
(* The calls made on a sprite                                              *)

\* PNFSprite(image): a sprite at (0, 0) in the default context
InitSprite ==
    /\ sprite = PNFSprite(Image, 0, 0)
    /\ started = 0
    /\ cancelled = {}
    /\ fired = [id \in {} |-> 0]
    /\ log = <<>>
    /\ nwrites = 0

SpriteDtValues == 0..MaxSpriteDt

\* A start_tween call: start_tween(linear, {X: target}, duration, on_complete)
TweenArgs(target, duration, on_complete) ==
    [attributes |-> << <<"x", target>> >>, duration |-> duration,
     on_complete |-> on_complete]

\* A start_flicker call
FlickerArgs(duration, interval, end_visibility, on_complete) ==
    [duration |-> duration, interval |-> interval,
     end_visibility |-> end_visibility, on_complete |-> on_complete]

\* The start_tween calls made, durations in half seconds (1.0 s; 0 is refused).
TweenCalls ==
    { TweenArgs(10 * SubPx, 2, NoCallback),
      TweenArgs(10 * SubPx, 2, Callback("noop", 0)),
      TweenArgs(10 * SubPx, 2, Callback("remove", 2)),
      TweenArgs(10 * SubPx, 0, Callback("noop", 0)) }

\* The start_flicker calls made, durations and intervals in half seconds (2.5 s
\* and 1.0 s; 0 is refused).
FlickerCalls ==
    { FlickerArgs(5, 2, TRUE, Callback("noop", 0)),
      FlickerArgs(5, 2, FALSE, Callback("clear", 0)),
      FlickerArgs(5, 0, TRUE, Callback("noop", 0)),
      FlickerArgs(0, 2, FALSE, NoCallback) }

\* A start_toggle call
ToggleArgs(duration, interval, start_status, end_status, on_toggle_on, on_toggle_off) ==
    [duration |-> duration, interval |-> interval, start_status |-> start_status,
     end_status |-> end_status, on_toggle_on |-> on_toggle_on,
     on_toggle_off |-> on_toggle_off, on_complete |-> NoCallback]

\* The start_toggle calls made, durations and intervals in half seconds (1.5 s
\* and 1.0 s; 0 is refused).
ToggleCalls ==
    { ToggleArgs(3, 2, TRUE, TRUE, Callback("noop", 0), Callback("noop", 0)),
      ToggleArgs(3, 2, FALSE, TRUE, Callback("noop", 0), NoCallback),
      ToggleArgs(0, 2, TRUE, TRUE, Callback("noop", 0), Callback("noop", 0)),
      ToggleArgs(3, 0, TRUE, FALSE, NoCallback, NoCallback) }

\* What remove_effect is called with: nothing, one effect (0: an effect that was
\* never started on this sprite), or two.
RemoveArgs == {<<>>, <<1, 2>>} \cup {<<id>> : id \in 0..MaxEffects}

StartedEffect(r, id) ==
    /\ started' = IF r.raised = "None" THEN id ELSE started
    /\ fired' = IF r.raised = "None" THEN (id :> 0) @@ fired ELSE fired

DoStartTween ==
    \E a \in TweenCalls :
        LET id == started + 1
            r == StartTween(sprite, id, "linear", a.attributes, a.duration,
                            a.on_complete)
        IN  /\ started < MaxEffects
            /\ sprite' = r.c
            /\ StartedEffect(r, id)
            /\ log' = <<>>
            /\ last' = Call("start_tween", a, r.raised)
            /\ UNCHANGED <<animVars, cancelled, nwrites>>

DoStartFlicker ==
    \E a \in FlickerCalls :
        LET id == started + 1
            r == StartFlicker(sprite, id, a.duration, a.interval, a.end_visibility,
                              a.on_complete)
        IN  /\ started < MaxEffects
            /\ sprite' = r.c
            /\ StartedEffect(r, id)
            /\ log' = <<>>
            /\ last' = Call("start_flicker", a, r.raised)
            /\ UNCHANGED <<animVars, cancelled, nwrites>>

DoStartToggle ==
    \E a \in ToggleCalls :
        LET id == started + 1
            r == StartToggle(sprite, id, a.duration, a.interval, a.start_status,
                             a.end_status, a.on_toggle_on, a.on_toggle_off,
                             a.on_complete)
        IN  /\ started < MaxEffects
            /\ sprite' = r.c
            /\ StartedEffect(r, id)
            /\ log' = <<>>
            /\ last' = Call("start_toggle", a, r.raised)
            /\ UNCHANGED <<animVars, cancelled, nwrites>>

DoRemoveEffect ==
    \E effects \in RemoveArgs :
        LET r == RemoveEffect(sprite, effects)
        IN  /\ sprite' = r.c
            /\ cancelled' = cancelled \cup Removed(sprite, r.c)
            /\ log' = <<>>
            /\ last' = Call("remove_effect", effects, r.raised)
            /\ UNCHANGED <<animVars, started, fired, nwrites>>

\* sprite.update(dt). A movement writes the position: such updates count as
\* writes, and the model makes MaxWrites of them at most.
SpriteUpdateCall(dt) ==
    \E r \in {SpriteUpdate(sprite, dt, Book(cancelled, fired, <<>>))} :
        /\ sprite.movement # None => nwrites < MaxWrites
        /\ sprite' = r.s
        /\ cancelled' = r.b.cancelled
        /\ fired' = r.b.fired
        /\ log' = r.b.log
        /\ last' = Call("update", <<dt>>, "None")
        /\ nwrites' = IF sprite.movement # None THEN nwrites + 1 ELSE nwrites
        /\ UNCHANGED <<animVars, started>>

DoSpriteUpdate == \E dt \in SpriteDtValues : SpriteUpdateCall(dt)

\* A tick of the game loop in which time has passed
PositiveTick == \E dt \in SpriteDtValues \ {0} : SpriteUpdateCall(dt)

\* The start_movement calls made: (velocity, acceleration), in units of the
\* position per second and per second squared
MovementCalls == { <<<<0, 2>>, None>>, <<<<2, 0>>, <<0, 8>>>> }

DoStartMovement ==
    \E a \in MovementCalls :
        /\ sprite' = StartMovement(sprite, a[1], a[2])
        /\ log' = <<>>
        /\ last' = Call("start_movement", a, "None")
        /\ UNCHANGED <<animVars, started, cancelled, fired, nwrites>>

DoStopMovement ==
    /\ sprite' = StopMovement(sprite)
    /\ log' = <<>>
    /\ last' = Call("stop_movement", <<>>, "None")
    /\ UNCHANGED <<animVars, started, cancelled, fired, nwrites>>

\* A tick of the game loop of half a second or a second
ShortTick == \E dt \in {1, 2} : SpriteUpdateCall(dt)

\* start_toggle with an on_toggle_off that removes the toggle it belongs to:
\* a toggle of 2.5 s that starts active and turns off after an interval of 1.0 s
DoStartRemovingToggle ==
    LET id == started + 1
        a == ToggleArgs(5, 2, TRUE, TRUE, NoCallback, Callback("remove", id))
        r == StartToggle(sprite, id, a.duration, a.interval, a.start_status,
                         a.end_status, a.on_toggle_on, a.on_toggle_off, a.on_complete)
    IN  /\ started < MaxEffects
        /\ sprite' = r.c
        /\ StartedEffect(r, id)
        /\ log' = <<>>
        /\ last' = Call("start_toggle", a, r.raised)
        /\ UNCHANGED <<animVars, cancelled, nwrites>>

\* The effects of a sprite whose callbacks remove effects, and its updates
NextIteration ==
    \/ DoStartTween
    \/ DoStartRemovingToggle
    \/ ShortTick

\* A sprite that moves: its movement, its effects, its updates
NextMoving ==
    \/ DoStartMovement
    \/ DoStopMovement
    \/ DoStartTween
    \/ ShortTick

NextEffects ==
    \/ DoStartTween
    \/ DoStartFlicker
    \/ DoStartToggle
    \/ DoRemoveEffect
    \/ DoSpriteUpdate

\* The parent contexts and attribute values of the model.
AttributeWrites ==
    { <<"x", 3>>, <<"y", 4>>, <<"position", <<5, 6>>>>, <<"rotation", 90>>,
      <<"scale", 2>>, <<"scale_x", 3>>, <<"scale_y", 5>>,
      <<"scroll_factor", <<0, 2>>>>, <<"origin", <<1, 1>>>>, <<"offset", <<7, 8>>>>,
      <<"color", <<255, 0, 0>>>>, <<"opacity", 128>>, <<"rgba", <<0, 255, 0, 64>>>>,
      <<"flip_x", TRUE>>, <<"flip_y", TRUE>> }

\* sprite.<name> = value
WriteAttribute(s, name, value) ==
    CASE name = "position"      -> SetPosition(s, value)
      [] name = "scroll_factor" -> SetScrollFactor(s, value)
      [] name = "origin"        -> SetOrigin(s, value)
      [] name = "offset"        -> SetSpriteOffset(s, value)
      [] name = "color"         -> SetColor(s, value)
      [] name = "rgba"          -> SetRgba(s, value)
      [] name = "flip_x"        -> SetFlipX(s, value)
      [] name = "flip_y"        -> SetFlipY(s, value)
      [] OTHER                  -> SetAttr(s, name, value)

DoWriteAttribute ==
    \E w \in AttributeWrites :
        /\ nwrites < MaxWrites
        /\ nwrites' = nwrites + 1
        /\ sprite' = WriteAttribute(sprite, w[1], w[2])
        /\ last' = Call("setattr", w, "None")
        /\ UNCHANGED <<animVars, started, cancelled, fired, log>>

DoSetContext ==
    \E parent_context \in ParentContexts :
        /\ sprite' = SetContext(sprite, parent_context)
        /\ last' = Call("set_context", parent_context, "None")
        /\ UNCHANGED <<animVars, started, cancelled, fired, log, nwrites>>

\* The frame collections assigned to sprite.frames: none, one and two frames.
FrameCollections ==
    { <<>>,
      FrameCollection(Image),
      <<[texture |-> "tex1", dims |-> <<4, 10>>], [texture |-> "tex1", dims |-> <<6, 8>>]>> }

\* sprite.frames = new_frames
DoSetFrames ==
    \E new_frames \in FrameCollections :
        LET r == SetFrames(sprite, new_frames)
        IN  /\ sprite' = r.c
            /\ last' = Call("frames", new_frames, r.raised)
            /\ UNCHANGED <<animVars, started, cancelled, fired, log, nwrites>>

\* The names of the animations registered on a sprite
SpriteAnimationNames == {"idle"}

\* sprite.animation.add(name, ...): the sprite's controller registers name.
DoAddSpriteAnimation ==
    \E name \in SpriteAnimationNames :
        /\ sprite' = [sprite EXCEPT !.animations = @ \cup {name}]
        /\ last' = Call("animation.add", <<name>>, "None")
        /\ UNCHANGED <<animVars, started, cancelled, fired, log, nwrites>>

NextContext ==
    \/ DoWriteAttribute
    \/ DoSetContext
    \/ DoSetFrames

\* The calls that configure a sprite: effects started and removed, frames and
\* animations set.
NextSprite ==
    \/ DoStartTween
    \/ DoStartFlicker
    \/ DoStartToggle
    \/ DoRemoveEffect
    \/ DoSetFrames
    \/ DoAddSpriteAnimation

---------------------------------------------------------------------------
(* The debug pane                                                          *)

\* Messages are numbered in the order add_message is called; 0 stands for the
\* empty text of a fresh label. DebugPane(line_amount): queue is the content of
\* self._queue (a queue.Queue: put and get_nowait are atomic); pc and message are
\* the position of the thread that runs update and its local `message`;
\* enqueued counts the add_message calls and written lists the messages in the
\* order `self.labels[self.insert_index].text = message` ran for them.
DebugPane(line_amount) ==
    [insert_index |-> 0, queue |-> <<>>, labels |-> [i \in 1..line_amount |-> 0],
     fps_label |-> None, pc |-> "idle", message |-> 0, enqueued |-> 0,
     written |-> <<>>]

\* add_message(log_message)
AddMessage(p, log_message) ==
    [p EXCEPT !.queue = Append(@, log_message), !.enqueued = @ + 1]

\* DebugPane.update up to the loop: the fps label, `if self._queue.empty(): return`
UpdateBegin(p, fps) ==
    LET p1 == [p EXCEPT !.fps_label = <<"FPS", fps>>]
    IN  IF p1.queue = <<>> THEN p1 ELSE [p1 EXCEPT !.pc = "get"]

\* self._queue.get_nowait() in the loop; queue.Empty ends the loop and the call
GetNowait(p) ==
    IF p.queue = <<>>
    THEN [p EXCEPT !.pc = "idle"]
    ELSE [p EXCEPT !.message = Head(p.queue), !.queue = Tail(@), !.pc = "write"]

\* (mutant) the rest of a round of the loop without the bumping up of the labels
WriteLabelNoBump(p) ==
    LET n == Len(p.labels)
        idx == IF p.insert_index = n THEN p.insert_index - 1 ELSE p.insert_index
    IN  [p EXCEPT !.labels[idx + 1] = p.message, !.insert_index = idx + 1,
                  !.written = Append(@, p.message), !.pc = "get"]

\* The rest of a round of the loop: with every label used the texts move up by
\* one label, then the message goes to labels[insert_index]
WriteLabel(p) ==
    LET n == Len(p.labels)
        full == p.insert_index = n
        idx == IF full THEN p.insert_index - 1 ELSE p.insert_index
        bumped == IF full
                  THEN [i \in 1..n |-> IF i < n THEN p.labels[i + 1] ELSE p.labels[i]]
                  ELSE p.labels
    IN  [p EXCEPT !.labels = [bumped EXCEPT ![idx + 1] = p.message],
                  !.insert_index = idx + 1,
                  !.written = Append(@, p.message), !.pc = "get"]

\* What the calls on the pane leave alone
paneOthers == <<pyopt, anim, sinceQuery, spriteVars, game, character, container, registry>>

\* add_message, from any thread, at any point of a running update
DoAddMessage ==
    /\ pane.enqueued < MaxMessages
    /\ pane' = AddMessage(pane, pane.enqueued + 1)
    /\ last' = Call("add_message", <<pane.enqueued + 1>>, "None")
    /\ UNCHANGED paneOthers

FpsShown == {30, 60}

\* The main thread calls update(fps, ...)
DoPaneUpdateBegin ==
    \E fps \in FpsShown :
        /\ pane.pc = "idle"
        /\ pane' = UpdateBegin(pane, fps)
        /\ last' = Call("update", <<fps>>, "None")
        /\ UNCHANGED paneOthers

\* The main thread, in the loop of update, gets a message or leaves
DoGetNowait ==
    /\ pane.pc = "get"
    /\ pane' = GetNowait(pane)
    /\ last' = Call("get_nowait", <<>>, IF pane.queue = <<>> THEN "Empty" ELSE "None")
    /\ UNCHANGED paneOthers

\* The main thread, in the loop of update, writes the message it got
DoWriteLabel ==
    /\ pane.pc = "write"
    /\ pane' = WriteLabel(pane)
    /\ last' = Call("write_label", <<pane.message>>, "None")
    /\ UNCHANGED paneOthers

\* The steps of the thread that updates the pane
PaneUpdate == DoPaneUpdateBegin \/ DoGetNowait \/ DoWriteLabel

NextPane == DoAddMessage \/ DoPaneUpdateBegin \/ DoGetNowait \/ DoWriteLabel

---------------------------------------------------------------------------
(* The game and its scene stack                                            *)

\* The scene classes of the model and their draw_passthrough and
\* update_passthrough attributes
SceneClasses ==
    [TitleScene |-> [draw_passthrough |-> FALSE, update_passthrough |-> FALSE],
     PauseScene |-> [draw_passthrough |-> TRUE, update_passthrough |-> FALSE]]

\* scene_type(self, *args, **kwargs): the instance, id the number of the
\* instance; pushed tells which push_scene call asked for it.
Scene(id, cls, pushed) == [id |-> id, cls |-> cls, pushed |-> pushed]

\* push_scene(new_scene_cls); pushes counts the calls, set_is_latest tells
\* whether the latest request made of the game was a set_scene
PushScene(g, new_scene_cls) ==
    [g EXCEPT !.pushes = @ + 1, !.set_is_latest = FALSE,
              !.pending_scene_stack_additions =
                  Append(@, [cls |-> new_scene_cls, pushed |-> g.pushes + 1])]

\* Game.__init__: the lists, then self.push_scene(TitleScene). scheduled holds
\* the lists new_scenes of the add functions handed to the clock and not yet
\* called, instances every scene made, in the order made. iterating is the list
\* the loop `for scene in self._scenes_to_update` of a running Game.update walks
\* and idx the place of the scene it updates next, 0 when no update is running.
Game ==
    PushScene([scene_stack |-> <<>>, scenes_to_draw |-> <<>>, scenes_to_update |-> <<>>,
               pending_scene_stack_removals |-> <<>>,
               pending_scene_stack_additions |-> <<>>,
               scheduled |-> <<>>, instances |-> <<>>, destroyed |-> {},
               pushes |-> 0, last_set |-> 0, set_is_latest |-> FALSE,
               iterating |-> <<>>, idx |-> 0], "TitleScene")

\* self._scene_stack[start:] with start >= -1: a start of -1 counts from the end
StackFrom(stack, start) ==
    IF stack = <<>> THEN <<>>
    ELSE IF start >= 0 THEN SubSeq(stack, start + 1, Len(stack))
    ELSE SubSeq(stack, Len(stack), Len(stack))

\* The index the while loop of _on_scene_stack_change stops at
RECURSIVE PassthroughStart(_, _, _)
PassthroughStart(stack, scene_attr, start) ==
    IF start >= 0 /\ SceneClasses[stack[start + 1].cls][scene_attr]
    THEN PassthroughStart(stack, scene_attr, start - 1)
    ELSE start

\* _on_scene_stack_change
OnSceneStackChange(g) ==
    LET top == Len(g.scene_stack) - 1
    IN  [g EXCEPT
           !.scenes_to_draw =
               StackFrom(g.scene_stack, PassthroughStart(g.scene_stack, "draw_passthrough", top)),
           !.scenes_to_update =
               StackFrom(g.scene_stack, PassthroughStart(g.scene_stack, "update_passthrough", top))]

\* (mutant) remove_scene that takes the scene out of the stack at once
RemoveSceneNow(g, scene) ==
    OnSceneStackChange([g EXCEPT !.scene_stack = SelectSeq(@, LAMBDA x : x # scene),
                                 !.destroyed = @ \cup {scene.id},
                                 !.set_is_latest = FALSE])

\* remove_scene(scene)
RemoveScene(g, scene) ==
    IF \A i \in 1..Len(g.pending_scene_stack_removals) :
           g.pending_scene_stack_removals[i] # scene
    THEN [g EXCEPT !.pending_scene_stack_removals = Append(@, scene),
                   !.set_is_latest = FALSE]
    ELSE [g EXCEPT !.set_is_latest = FALSE]

\* The loop of set_scene over self._scene_stack, from index i on
RECURSIVE MarkAll(_, _)
MarkAll(g, i) ==
    IF i > Len(g.scene_stack) THEN g
    ELSE MarkAll(RemoveScene(g, g.scene_stack[i]), i + 1)

\* set_scene(new_scene_type); last_set tells which push was the set_scene's
SetScene(g, new_scene_type) ==
    [PushScene(MarkAll(g, 1), new_scene_type) EXCEPT !.last_set = g.pushes + 1,
                                                     !.set_is_latest = TRUE]

\* list.remove(scene) on the scene stack, scene in the stack
RECURSIVE StackRemove(_, _)
StackRemove(stack, scene) ==
    IF stack = <<>> THEN <<>>
    ELSE IF Head(stack) = scene THEN Tail(stack)
    ELSE <<Head(stack)>> \o StackRemove(Tail(stack), scene)

InStack(stack, scene) == \E i \in 1..Len(stack) : stack[i] = scene

\* The loop of Game.update over the pending removals: pop() takes the last one;
\* list.remove raises ValueError for a scene that is not in the stack.
RECURSIVE ApplyRemovals(_)
ApplyRemovals(g) ==
    IF g.pending_scene_stack_removals = <<>> THEN Ok(g)
    ELSE LET n == Len(g.pending_scene_stack_removals)
             scene == g.pending_scene_stack_removals[n]
             g1 == [g EXCEPT !.pending_scene_stack_removals = SubSeq(@, 1, n - 1)]
         IN  IF InStack(g1.scene_stack, scene)
             THEN ApplyRemovals([g1 EXCEPT !.scene_stack = StackRemove(@, scene),
                                           !.destroyed = @ \cup {scene.id}])
             ELSE Raise(g1, "ValueError")

\* The loop of Game.update over the pending additions: pop() takes the last
\* one; then pyglet.clock.schedule_once(add, 0.0)
RECURSIVE CreateScenes(_, _)
CreateScenes(g, new_scenes) ==
    IF g.pending_scene_stack_additions = <<>>
    THEN [g EXCEPT !.scheduled = Append(@, new_scenes)]
    ELSE LET n == Len(g.pending_scene_stack_additions)
             a == g.pending_scene_stack_additions[n]
             new_scene == Scene(Len(g.instances) + 1, a.cls, a.pushed)
         IN  CreateScenes(
                 [g EXCEPT !.pending_scene_stack_additions = SubSeq(@, 1, n - 1),
                           !.instances = Append(@, new_scene)],
                 Append(new_scenes, new_scene))

\* Game.update(dt) up to its loop over self._scenes_to_update: the loop walks
\* the list that is bound when it starts.
GameUpdate(g) ==
    LET r == IF g.pending_scene_stack_removals # <<>>
             THEN ApplyRemovals(g)
             ELSE Ok(g)
        g1 == IF g.pending_scene_stack_removals # <<>> THEN OnSceneStackChange(r.c)
              ELSE r.c
        g2 == IF g1.pending_scene_stack_additions # <<>> THEN CreateScenes(g1, <<>>)
              ELSE g1
    IN  IF r.raised # "None"
        THEN r
        ELSE Ok([g2 EXCEPT !.iterating = g2.scenes_to_update,
                           !.idx = IF g2.scenes_to_update = <<>> THEN 0 ELSE 1])

\* One round of the loop of Game.update: scene.update(dt) for the next scene of
\* the list; after the last one Game.update returns
SceneUpdate(g) ==
    IF g.idx >= Len(g.iterating)
    THEN [g EXCEPT !.iterating = <<>>, !.idx = 0]
    ELSE [g EXCEPT !.idx = g.idx + 1]

\* The function add that Game.update handed to the clock
ClockAdd(g) ==
    OnSceneStackChange([g EXCEPT !.scene_stack = @ \o Head(g.scheduled),
                                 !.scheduled = Tail(@)])

\* What the calls on the game leave alone
gameOthers == <<pyopt, anim, sinceQuery, spriteVars, pane, character, container, registry>>

SceneClassNames == {"TitleScene", "PauseScene"}

\* An exception left Game.update: it leaves the clock and pyglet.app.run() with
\* it, and Game.run() returns by it: the game makes no further call.
GameOver == last.op = "game.update" /\ last.raised # "None"

\* push_scene, set_scene and remove_scene are called by the scene whose update
\* runs, or by a handler between two updates
DoPushScene ==
    \E cls \in SceneClassNames :
        /\ ~GameOver
        /\ game.pushes < MaxScenes
        /\ game' = PushScene(game, cls)
        /\ last' = Call("push_scene", <<cls>>, "None")
        /\ UNCHANGED gameOthers

\* push_scene(PauseScene): a scene pushes an overlay that is drawn over it
DoPushOverlay ==
    /\ ~GameOver
    /\ game.pushes < MaxOverlays
    /\ game' = PushScene(game, "PauseScene")
    /\ last' = Call("push_scene", <<"PauseScene">>, "None")
    /\ UNCHANGED gameOthers

DoSetScene ==
    \E cls \in SceneClassNames :
        /\ ~GameOver
        /\ game.pushes < MaxScenes
        /\ game' = SetScene(game, cls)
        /\ last' = Call("set_scene", <<cls>>, "None")
        /\ UNCHANGED gameOthers

\* remove_scene(scene), scene any scene made so far
DoRemoveScene ==
    \E i \in 1..Len(game.instances) :
        /\ ~GameOver
        /\ game' = RemoveScene(game, game.instances[i])
        /\ last' = Call("remove_scene", <<game.instances[i]>>, "None")
        /\ UNCHANGED gameOthers

\* The clock calls Game.update
DoGameUpdate ==
    \E r \in {GameUpdate(game)} :
        /\ ~GameOver
        /\ game.idx = 0
        /\ game' = r.c
        /\ last' = Call("game.update", <<>>, r.raised)
        /\ UNCHANGED gameOthers

\* The loop of the running Game.update calls the update of its next scene
DoSceneUpdate ==
    /\ game.idx > 0
    /\ game' = SceneUpdate(game)
    /\ last' = Call("scene.update", <<game.iterating[game.idx]>>, "None")
    /\ UNCHANGED gameOthers

\* The clock calls the oldest add function it was handed
DoClockAdd ==
    /\ ~GameOver
    /\ game.idx = 0
    /\ game.scheduled # <<>>
    /\ game' = ClockAdd(game)
    /\ last' = Call("add", <<>>, "None")
    /\ UNCHANGED gameOthers

NextGame ==
    \/ DoPushScene
    \/ DoSetScene
    \/ DoRemoveScene
    \/ DoGameUpdate
    \/ DoSceneUpdate
    \/ DoClockAdd

NextOverlays ==
    \/ DoPushOverlay
    \/ DoRemoveScene
    \/ DoGameUpdate
    \/ DoSceneUpdate
    \/ DoClockAdd

---------------------------------------------------------------------------
(* Characters                                                              *)

\* Character time: hold_timer and dt count eighths of a second
CharacterTicksPerSecond == 2 ^ 3

\* Character.get_hold_timeout
GetHoldTimeout == 4

\* Character.__init__, after PNFSprite.__init__. tags are the tags of the
\* animation the character plays, step_duration is
\* self.scene.conductor.step_duration (milliseconds), danced the number of
\* dance() calls the last update made.
Character ==
    [hold_timeout |-> GetHoldTimeout, hold_timer |-> 0, dont_idle |-> FALSE,
     tags |-> {}, step_duration |-> 125, danced |-> 0]

\* self.animation.has_tag(tag)
HasTag(c, tag) == tag \in c.tags

\* self._hold_timeout * self.scene.conductor.step_duration * 0.001 seconds, in
\* ticks (a whole number for the step durations of the model)
HoldLimit(c) == (c.hold_timeout * c.step_duration * CharacterTicksPerSecond) \div 1000

\* dance: self.animation.play("idle")
Dance(c) == [c EXCEPT !.tags = {"IDLE"}, !.danced = @ + 1]

\* (mutant) Character.update that dances without resetting the timer
CharacterUpdateNoReset(c, dt) ==
    LET c1 == IF HasTag(c, "SING") \/ HasTag(c, "MISS")
              THEN [c EXCEPT !.hold_timer = @ + dt, !.danced = 0]
              ELSE [c EXCEPT !.danced = 0]
    IN  IF c1.hold_timer >= HoldLimit(c1) /\ ~c1.dont_idle
        THEN Dance(c1)
        ELSE c1

\* Character.update(dt), after super().update(dt)
CharacterUpdate(c, dt) ==
    LET c1 == IF HasTag(c, "SING") \/ HasTag(c, "MISS")
              THEN [c EXCEPT !.hold_timer = @ + dt, !.danced = 0]
              ELSE [c EXCEPT !.danced = 0]
    IN  IF c1.hold_timer >= HoldLimit(c1) /\ ~c1.dont_idle
        THEN Dance([c1 EXCEPT !.hold_timer = 0])
        ELSE c1

\* What the calls on the character leave alone
characterOthers == <<pyopt, anim, sinceQuery, spriteVars, pane, game, container, registry>>

CharacterDtValues == 0..MaxCharacterDt

DoCharacterUpdate ==
    \E dt \in CharacterDtValues :
        /\ character.hold_timer + dt <= MaxHoldTimer
        /\ character' = CharacterUpdate(character, dt)
        /\ last' = Call("character.update", <<dt>>, "None")
        /\ UNCHANGED characterOthers

\* The scene plays an animation on the character: one tagged SING, MISS or
\* IDLE, or one with no tag
DoPlayTagged ==
    \E tags \in {{"SING"}, {"MISS"}, {"IDLE"}, {}} :
        /\ character' = [character EXCEPT !.tags = tags]
        /\ last' = Call("character.animation.play", <<tags>>, "None")
        /\ UNCHANGED characterOthers

\* The scene writes character.dont_idle
DoSetDontIdle ==
    \E v \in BOOLEAN :
        /\ character' = [character EXCEPT !.dont_idle = v]
        /\ last' = Call("character.dont_idle", <<v>>, "None")
        /\ UNCHANGED characterOthers

\* The step durations of the model: 125 ms (120 beats per minute), 250 ms
StepDurations == {125, 250}

\* The conductor's step duration changes
DoSetStepDuration ==
    \E v \in StepDurations :
        /\ character' = [character EXCEPT !.step_duration = v]
        /\ last' = Call("conductor.step_duration", <<v>>, "None")
        /\ UNCHANGED characterOthers

NextCharacter ==
    \/ DoCharacterUpdate
    \/ DoPlayTagged
    \/ DoSetDontIdle
    \/ DoSetStepDuration

---------------------------------------------------------------------------
(* Sprite containers                                                       *)

\* The positions of this section are Python floats. A float keeps a fixed
\* number of significant bits (53 in the interpreter) and every sum and
\* difference is rounded to that many, ties to the even neighbour; the model
\* keeps MantissaBits of them, so that whole numbers up to 2 ^ MantissaBits are
\* exact and rounding starts there.
MantissaBits == 4

\* The spacing of the floats around v >= 0, from the spacing u upwards
RECURSIVE Ulp(_, _)
Ulp(v, u) == IF v < (2 ^ MantissaBits) * u THEN u ELSE Ulp(v, 2 * u)

\* v >= 0 rounded to the nearest float
RoundAbs(v) ==
    LET u == Ulp(v, 1)
        q == v \div u
        r == v % u
    IN  IF 2 * r < u THEN q * u
        ELSE IF 2 * r > u THEN (q + 1) * u
        ELSE IF q % 2 = 0 THEN q * u ELSE (q + 1) * u

\* The float nearest to v: the result of the float operation whose exact result is v
Fl(v) == IF v < 0 THEN 0 - RoundAbs(0 - v) ELSE RoundAbs(v)

\* SceneContext() as a parent context: the default batch and cameras, no group
EmptyContext == [batch |-> "batch0", group |-> "None", cameras |-> <<"dummy">>]

\* The container's own context, Context(): its group is the parent of the groups
\* of the sprites added
ContainerContext == [batch |-> "batch0", group |-> "container", cameras |-> <<"dummy">>]

\* PNFSpriteContainer.__init__(sprites=(), x, y, context=None). members are the
\* sprites of the model, in the container (those of _sprites) or not; before
\* keeps the position a sprite had when add was called with it, moves counts
\* the writes to x and y.
PNFSpriteContainer(x, y) ==
    [x |-> x, y |-> y, opacity |-> 255, context |-> ContainerContext, sprites |-> {},
     members |-> <<PNFSprite(Image, 1, 2), PNFSprite(Image, 5, 0)>>,
     before |-> <<None, None>>, moves |-> 0]

\* remove(sprite), sprite the i-th sprite of the model: the sprite is moved and
\* its context invalidated (set_context(SceneContext())) before set.remove
\* raises KeyError for a sprite that is not in the container
ContainerRemove(c, i) ==
    LET s1 == SetX(c.members[i], Fl(c.members[i].x - c.x))
        s2 == SetY(s1, Fl(s1.y - c.y))
        s3 == SetContext(s2, EmptyContext)
    IN  IF i \in c.sprites
        THEN Ok([c EXCEPT !.members[i] = s3, !.sprites = @ \ {i}])
        ELSE Raise([c EXCEPT !.members[i] = s3], "KeyError")

\* add(sprite), sprite the i-th sprite of the model
ContainerAdd(c, i) ==
    LET s1 == SetX(c.members[i], Fl(c.members[i].x + c.x))
        s2 == SetY(s1, Fl(s1.y + c.y))
    IN  [c EXCEPT !.members[i] = SetContext(s2, c.context), !.sprites = @ \cup {i},
                  !.before[i] = <<c.members[i].x, c.members[i].y>>]

\* transform_children(self._transform_x, val)
TransformX(c, val) ==
    [c EXCEPT !.members = [i \in 1..Len(c.members) |->
                              IF i \in c.sprites
                              THEN SetX(c.members[i], Fl(c.members[i].x + val))
                              ELSE c.members[i]]]

\* transform_children(self._transform_y, val)
TransformY(c, val) ==
    [c EXCEPT !.members = [i \in 1..Len(c.members) |->
                              IF i \in c.sprites
                              THEN SetY(c.members[i], Fl(c.members[i].y + val))
                              ELSE c.members[i]]]

\* _set_x, the setter of x
ContainerSetX(c, x) == [TransformX(c, Fl(x - c.x)) EXCEPT !.x = x, !.moves = @ + 1]

\* _set_y, the setter of y
ContainerSetY(c, y) == [TransformY(c, Fl(y - c.y)) EXCEPT !.y = y, !.moves = @ + 1]

\* What the calls on the container leave alone
containerOthers == <<pyopt, anim, sinceQuery, spriteVars, pane, game, character, registry>>

\* The positions written to the container
ContainerPositions == {0, 4, 16, 24}

DoContainerAdd ==
    \E i \in 1..Len(container.members) :
        /\ i \notin container.sprites
        /\ container' = ContainerAdd(container, i)
        /\ last' = Call("container.add", <<i>>, "None")
        /\ UNCHANGED containerOthers

DoContainerRemove ==
    \E i \in 1..Len(container.members) :
        \E r \in {ContainerRemove(container, i)} :
            /\ i \in container.sprites \/ container.moves < MaxMoves
            /\ container' = IF r.raised = "None" THEN r.c
                             ELSE [r.c EXCEPT !.moves = @ + 1]
            /\ last' = Call("container.remove", <<i>>, r.raised)
            /\ UNCHANGED containerOthers

DoContainerSetX ==
    \E x \in ContainerPositions :
        /\ container.moves < MaxMoves
        /\ container' = ContainerSetX(container, x)
        /\ last' = Call("container.x", <<x>>, "None")
        /\ UNCHANGED containerOthers

DoContainerSetY ==
    \E y \in ContainerPositions :
        /\ container.moves < MaxMoves
        /\ container' = ContainerSetY(container, y)
        /\ last' = Call("container.y", <<y>>, "None")
        /\ UNCHANGED containerOthers

NextContainer ==
    \/ DoContainerAdd
    \/ DoContainerRemove
    \/ DoContainerSetX
    \/ DoContainerSetY

---------------------------------------------------------------------------
(* The registry                                                            *)

\* Registry.__init__: _dict maps the names registered to their items, _sources
\* (a defaultdict of sets) the sources to the names added under them. An item
\* of the model tells the source it was added under.
Registry == [dict |-> [n \in {} |-> "None"], sources |-> [src \in {} |-> {}]]

\* A dict without the key k
Without(d, k) == [n \in (DOMAIN d) \ {k} |-> d[n]]

\* add(source_name, name, item)
RegistryAdd(r, source_name, name, item) ==
    IF name \in DOMAIN r.dict
    THEN Raise(r, "ValueError")
    ELSE Ok([dict |-> (name :> item) @@ r.dict,
             sources |-> (source_name :> ((IF source_name \in DOMAIN r.sources
                                           THEN r.sources[source_name] ELSE {})
                                          \cup {name})) @@ r.sources])

\* remove(name)
RegistryRemove(r, name) ==
    IF name \notin DOMAIN r.dict
    THEN Raise(r, "KeyError")
    ELSE Ok([r EXCEPT !.dict = Without(@, name)])

\* The loop of purge_source: self.remove(name) for the names in the order the
\* set hands them out; a KeyError of remove ends the loop and the call
RECURSIVE RemoveNames(_, _)
RemoveNames(r, names) ==
    IF names = <<>> THEN Ok(r)
    ELSE LET x == RegistryRemove(r, Head(names))
         IN  IF x.raised # "None" THEN x ELSE RemoveNames(x.c, Tail(names))

\* purge_source(source_name), names the names of the source in the order the
\* iteration over the popped set hands them out
PurgeSource(r, source_name, names) ==
    IF source_name \notin DOMAIN r.sources
    THEN Raise(r, "KeyError")
    ELSE RemoveNames([r EXCEPT !.sources = Without(@, source_name)], names)

\* The orders the iteration over a set can hand its elements out in
Orders(S) ==
    {sq \in [1..Cardinality(S) -> S] : \A x \in S : \E i \in 1..Cardinality(S) : sq[i] = x}

\* What the calls on the registry leave alone
registryOthers == <<pyopt, anim, sinceQuery, spriteVars, pane, game, character, container>>

RegistryNames == {"n1", "n2"}

RegistrySources == {"s1", "s2"}

DoRegistryAdd ==
    \E source_name \in RegistrySources, name \in RegistryNames :
        \E r \in {RegistryAdd(registry, source_name, name, source_name)} :
            /\ registry' = r.c
            /\ last' = Call("registry.add", <<source_name, name>>, r.raised)
            /\ UNCHANGED registryOthers

DoRegistryRemove ==
    \E name \in RegistryNames :
        \E r \in {RegistryRemove(registry, name)} :
            /\ registry' = r.c
            /\ last' = Call("registry.remove", <<name>>, r.raised)
            /\ UNCHANGED registryOthers

DoPurgeSource ==
    \E source_name \in RegistrySources :
        \E names \in IF source_name \in DOMAIN registry.sources
                      THEN Orders(registry.sources[source_name])
                      ELSE {<<>>} :
            \E r \in {PurgeSource(registry, source_name, names)} :
                /\ registry' = r.c
                /\ last' = Call("registry.purge_source", <<source_name>>, r.raised)
                /\ UNCHANGED registryOthers

NextRegistry ==
    \/ DoRegistryAdd
    \/ DoRegistryRemove
    \/ DoPurgeSource

---------------------------------------------------------------------------
(* Specifications                                                          *)

\* The further objects of the model, as constructed
InitEnv ==
    /\ pane = DebugPane(LineAmount)
    /\ game = Game
    /\ character = Character
    /\ container = PNFSpriteContainer(0, 0)
    /\ registry = Registry

Init ==
    /\ pyopt = FALSE
    /\ InitAnim
    /\ InitSprite
    /\ InitEnv

\* The animation controller
Spec == Init /\ [][NextAnim]_vars

\* The effects of a sprite
SpecEffects == Init /\ [][NextEffects]_vars

\* The effects of a sprite the game loop keeps updating: the scene calls
\* sprite.update(dt) every frame, dt the time since the last frame.
SpecEffectsFair == SpecEffects /\ WF_vars(PositiveTick)

\* The attributes and the context of a sprite
SpecContext == Init /\ [][NextContext]_vars

\* A sprite with effects whose callbacks remove effects
SpecIteration == Init /\ [][NextIteration]_vars

\* The debug pane, its producers and the thread that updates it
SpecPane == Init /\ [][NextPane]_vars

\* The debug pane with update called again and again, each call running to its end
SpecPaneFair == SpecPane /\ WF_vars(PaneUpdate)

\* The game, the scenes pushed, set and removed, and the clock
SpecGame == Init /\ [][NextGame]_vars

\* The game, the overlays pushed on its scenes and removed, and the clock
SpecOverlays == Init /\ [][NextOverlays]_vars

\* A character, the animations played on it and its updates
SpecCharacter == Init /\ [][NextCharacter]_vars

\* A sprite container, the sprites added and removed, its moves
SpecContainer == Init /\ [][NextContainer]_vars

\* A registry and the calls made on it
SpecRegistry == Init /\ [][NextRegistry]_vars

\* A sprite with a movement and effects
SpecMoving == Init /\ [][NextMoving]_vars

\* The configuration of a sprite: its effects, frames and animations
SpecSprite == Init /\ [][NextSprite]_vars

\* The controller under either interpreter mode, add also called with empty
\* frame collections.
InitAnyAdd ==
    /\ pyopt \in BOOLEAN
    /\ InitAnim
    /\ InitSprite
    /\ InitEnv

NextAnyAdd == NextAnim \/ DoAddEmpty

SpecAnyAdd == InitAnyAdd /\ [][NextAnyAdd]_vars

---------------------------------------------------------------------------
(* Claims about the animation controller                                   *)

\* num/den seconds, in ticks
Ticks(num, den) == (TicksPerSecond * num) \div den

RECURSIVE SumV(_)
SumV(s) == IF s = <<>> THEN Vec2Zero ELSE VAdd(Head(s), SumV(Tail(s)))

\* The current animation is one of two frames registered with fps = 10 and
\* loop = true.
TwoFrameLoopAt10 ==
    /\ anim.current # None
    /\ Len(anim.current[1].frames) = 2
    /\ anim.current[1].loop
    /\ \A i \in 1..2 : anim.current[1].frames[i].duration = Ticks(1, 10)

\* play(name) has just switched to that animation.
JustPlayedTwoFrameLoop ==
    /\ TwoFrameLoopAt10
    /\ last.op = "play" /\ last.raised = "None"
    /\ anim.playing /\ anim.frame_idx = 0 /\ anim.next_dt = Ticks(1, 10)

\* C1 as stated: after add(name, [f0, f1], fps=10, loop=true) and play(name),
\* update(0.2) leaves the controller on frame 1 and a second update(0.2) leaves it
\* on frame 0.
C1_AsStated ==
    JustPlayedTwoFrameLoop =>
        LET u1 == Update(anim, Ticks(2, 10)).c
            u2 == Update(u1, Ticks(2, 10)).c
        IN  u1.frame_idx = 1 /\ u2.frame_idx = 0

\* C1, amended: after add(name, [f0, f1], fps=10, loop=true) and play(name),
\* update(0.2) leaves the controller on frame 1 with no time left in it (one frame
\* advanced); the second update(0.2) advances two frames, wrapping to frame 0
\* after 0.1 s and ending on frame 1 again.
C1_TwoUpdates ==
    JustPlayedTwoFrameLoop =>
        LET u1 == Update(anim, Ticks(2, 10)).c
            uw == Update(u1, Ticks(1, 10)).c
            u2 == Update(u1, Ticks(2, 10)).c
        IN  /\ u1.frame_idx = 1 /\ u1.next_dt = 0 /\ u1.playing
            /\ uw.frame_idx = 0
            /\ u2.frame_idx = 1 /\ u2.next_dt = 0 /\ u2.playing

\* The state update(0.2) leaves behind after such a play: frame 1, used up.
C1_Witness ==
    /\ TwoFrameLoopAt10
    /\ last = Call("update", <<Ticks(2, 10)>>, "None")
    /\ anim.playing /\ anim.frame_idx = 1 /\ anim.next_dt = 0
    /\ anim.new_texture = anim.current[1].frames[2].image

\* C2: whatever animation is playing, on whatever frame, the pending offset after
\* update(a + b) equals the pending offset after update(a) then update(b).
C2_CatchUp ==
    (anim.playing /\ anim.current # None) =>
        \A a, b \in DtValues :
            Update(anim, a + b).c.new_offset
                = Update(Update(anim, a).c, b).c.new_offset

\* C8: an add call with fps <= 0 or an empty frame collection raises and leaves
\* the controller as it was.
C8_AddRejected ==
    [][ (last'.op = "add" /\ (last'.args.fps <= 0 \/ Len(last'.args.anim_data) = 0))
            => (last'.raised # "None" /\ anim' = anim) ]_vars

\* C10: the pending offset is the sum of the deltas produced since the last
\* query_new_offset (nothing if none was); a query returns the pending value and
\* leaves the slot empty, so that a second query returns nothing.
C10_PendingSlots ==
    /\ [](anim.new_offset = IF sinceQuery = <<>> THEN None ELSE SumV(sinceQuery))
    /\ [][ last'.op = "query_new_offset" =>
             /\ last'.args = <<anim.new_offset>>
             /\ anim'.new_offset = None
             /\ QueryNewOffset(anim').ret = None ]_vars
    /\ [][ last'.op = "query_new_frame" =>
             /\ last'.args = <<anim.new_texture>>
             /\ anim'.new_texture = "None"
             /\ QueryNewFrame(anim').ret = "None" ]_vars

\* Three deltas are pending, the last two not zero, and the slot holds their sum.
C10_Witness ==
    /\ Len(sinceQuery) = 3
    /\ sinceQuery[2] # Vec2Zero /\ sinceQuery[3] # Vec2Zero
    /\ anim.new_offset = SumV(sinceQuery)
    /\ anim.new_offset # sinceQuery[3]

\* play(name, force) is called on a controller whose current animation is name,
\* without force.
PlaySameCall ==
    /\ last'.op = "play" /\ ~last'.args[2]
    /\ anim.current # None /\ anim.current_name = last'.args[1]

\* C11: play(name) with force = false while name is the current animation sets
\* the play flag and leaves everything else of the controller (frame index, time
\* left in the frame, frame offset, base box, pending texture and pending
\* offset) as it was.
C11_PlaySameIsNoOp ==
    [][ PlaySameCall =>
          /\ last'.raised = "None"
          /\ anim'.playing
          /\ anim' = [anim EXCEPT !.playing = TRUE] ]_vars

\* play(name) without force was called on the animation already current: the
\* controller is past frame 0, part of the frame's time is used and a texture and
\* an offset are pending.
C11_Witness ==
    /\ last.op = "play" /\ ~last.args[2] /\ last.raised = "None"
    /\ anim.current # None /\ anim.current_name = last.args[1]
    /\ anim.frame_idx > 0
    /\ anim.next_dt < anim.current[1].frames[anim.frame_idx + 1].duration
    /\ anim.frame_offset # Vec2Zero
    /\ anim.new_texture # "None" /\ anim.new_offset # None
    /\ anim.playing

\* play(name, force) is called and switches animations: name is registered with
\* frames, and is not the current animation unless force is set.
PlaySwitchCall ==
    /\ last'.op = "play" /\ last'.raised = "None"
    /\ ~(anim.current # None /\ anim.current_name = last'.args[1] /\ ~last'.args[2])

\* C12: a play call that switches ends with current = the named animation, frame
\* index 0, playing, the pending texture = the image of frame 0, and adds to the
\* pending offset (stored frame offset + whole-animation offset of the detached
\* animation, zero if none was current) - the whole-animation offset of the new
\* animation + the alignment delta of frame 0 from a zero stored frame offset.
C12_PlaySwitches ==
    [][ PlaySwitchCall =>
          LET animation == anim.animations[last'.args[1]]
              detached  == IF anim.current = None THEN Vec2Zero
                           ELSE IF anim.current[1].offset = None
                                THEN anim.frame_offset
                                ELSE VAdd(anim.frame_offset, anim.current[1].offset)
              whole     == IF animation.offset = None THEN Vec2Zero
                           ELSE animation.offset
              align     == AlignOffset(animation.frames[1].frame_info, anim'.base_box)
              added     == VAdd(VSub(detached, whole), VSub(Vec2Zero, align))
          IN  /\ anim'.current = <<animation>>
              /\ anim'.current_name = last'.args[1]
              /\ anim'.frame_idx = 0
              /\ anim'.playing
              /\ anim'.next_dt = animation.frames[1].duration
              /\ anim'.new_texture = animation.frames[1].image
              /\ anim'.frame_offset = align
              /\ anim'.new_offset = IF anim.new_offset = None THEN added
                                    ELSE VAdd(anim.new_offset, added) ]_vars

\* play has switched from an animation with a whole-animation offset, left on a
\* later frame with a frame offset, to another one: two deltas are pending and the
\* one of the play is not zero.
C12_Witness ==
    /\ last.op = "play" /\ last.raised = "None"
    /\ anim.frame_idx = 0 /\ anim.playing
    /\ anim.current_name = last.args[1]
    /\ Len(sinceQuery) >= 2
    /\ sinceQuery[Len(sinceQuery) - 1] # Vec2Zero
    /\ sinceQuery[Len(sinceQuery)] # Vec2Zero
    /\ anim.current[1].offset # None
    /\ anim.new_texture = anim.current[1].frames[1].image

\* The durations of frames[i..], summed
RECURSIVE SumDurations(_, _)
SumDurations(frames, i) ==
    IF i > Len(frames) THEN 0 ELSE frames[i].duration + SumDurations(frames, i + 1)

\* The time left in the animation c plays: what is left of the current frame and
\* the durations of the frames after it.
TimeToEnd(c) == c.next_dt + SumDurations(c.current[1].frames, c.frame_idx + 2)

\* update(dt) is called and returns, on a controller that is playing.
UpdateCallPlaying ==
    /\ last'.op = "update" /\ last'.raised = "None"
    /\ anim.playing /\ anim.current # None

\* C13 as stated: an update whose dt reaches the end of the last frame (dt >= the
\* time left in the animation) wraps a looping animation to frame 0 and stops a
\* non-looping one on its last frame.
C13_AsStated ==
    [][ (UpdateCallPlaying /\ last'.args[1] >= TimeToEnd(anim)) =>
          LET frames == anim.current[1].frames
              over   == last'.args[1] - TimeToEnd(anim)
          IN  IF anim.current[1].loop
              THEN /\ anim'.playing
                   /\ over < frames[1].duration => anim'.frame_idx = 0
              ELSE /\ ~anim'.playing
                   /\ anim'.frame_idx = Len(frames) - 1 ]_vars

\* C13, amended: an update whose dt goes past the end of the last frame (dt > the
\* time left in the animation) wraps a looping animation, which continues at
\* frame 0 and stays playing, and stops a non-looping one, which keeps the index
\* of its last frame; an update whose dt is at most the time left stops nothing,
\* and one whose dt is exactly the time left stays on the last frame with no time
\* left in it. An update on a controller that is not playing changes nothing, and
\* no update on a single-frame non-looping animation changes a pending slot.
C13_EndOfAnimation ==
    /\ [][ UpdateCallPlaying =>
             LET frames == anim.current[1].frames
                 dt     == last'.args[1]
                 over   == dt - TimeToEnd(anim)
             IN  /\ anim.current[1].loop => anim'.playing
                 /\ (anim.current[1].loop /\ 0 < over /\ over <= frames[1].duration)
                        => anim'.frame_idx = 0
                 /\ (~anim.current[1].loop /\ over > 0)
                        => /\ ~anim'.playing
                           /\ anim'.frame_idx = Len(frames) - 1
                 /\ over <= 0 => anim'.playing
                 /\ over = 0 => /\ anim'.frame_idx = Len(frames) - 1
                                /\ anim'.next_dt = 0
                 /\ (~anim.current[1].loop /\ Len(frames) = 1)
                        => /\ anim'.new_texture = anim.new_texture
                           /\ anim'.new_offset = anim.new_offset ]_vars
    /\ [][ (last'.op = "update" /\ ~anim.playing) =>
             (anim' = anim /\ last'.raised = "None") ]_vars

\* A non-looping animation of several frames has stopped on its last frame, and
\* the last call was an update with a positive dt.
C13_Witness ==
    /\ last.op = "update" /\ last.args[1] > 0 /\ last.raised = "None"
    /\ anim.current # None /\ ~anim.current[1].loop
    /\ ~anim.playing
    /\ anim.frame_idx = Len(anim.current[1].frames) - 1
    /\ anim.frame_idx > 0

\* The dt values of update: the ticks of a running game, and one huge value
UpdateDts == DtValues \cup {HugeDt}

\* C15: for the animation playing (its frame durations positive) and all dt
\* values a, b >= 0, the frame index and the playing flag after update(a) then
\* update(b) equal those after update(a + b), and an update call returns whatever
\* its dt is.
C15_Accumulation ==
    (anim.playing /\ anim.current # None
        /\ \A i \in DOMAIN anim.current[1].frames :
               anim.current[1].frames[i].duration > 0) =>
        /\ \A dt \in UpdateDts : Update(anim, dt).raised = "None"
        /\ \A a, b \in DtValues :
               LET one == Update(anim, a + b).c
                   two == Update(Update(anim, a).c, b).c
               IN  /\ one.frame_idx = two.frame_idx
                   /\ one.playing = two.playing

\* update(dt) is called, returns and changes the frame index.
UpdateChangesFrame ==
    /\ last'.op = "update" /\ last'.raised = "None"
    /\ anim'.frame_idx # anim.frame_idx

\* C14: after an update call that changes the frame index, the pending texture is
\* the image of the new current frame, the stored frame offset is the alignment
\* offset of that frame, and the pending offset has grown by the delta from the
\* frame offset stored before to that alignment offset.
C14_FrameChangeSignals ==
    [][ UpdateChangesFrame =>
          LET frame == anim.current[1].frames[anim'.frame_idx + 1]
              align == AlignOffset(frame.frame_info, anim.base_box)
              delta == VSub(anim.frame_offset, align)
          IN  /\ anim'.new_texture = frame.image
              /\ anim'.frame_offset = align
              /\ anim'.new_offset = IF anim.new_offset = None THEN delta
                                    ELSE VAdd(anim.new_offset, delta) ]_vars

---------------------------------------------------------------------------
(* Claims about the effects of a sprite                                    *)

\* The identities of the effects in the sprite's list
ActiveIds == EffectIds(sprite.effects)

Min(a, b) == IF a < b THEN a ELSE b

\* log[i] is the update of an effect of this kind
IsUpdateOf(i, kind) == log[i].ev = "update" /\ log[i].e.kind = kind

\* C3 (as stated): a flicker started on the visible sprite as its only effect
\* (interval I, duration D, end visibility ve) shows, after a tick ending at
\* elapsed time t < D, "visible" flipped floor(t/I) times, whatever ticks led to
\* t, and ve after the tick at which t >= D.
C3_FlickerVisibility ==
    started = 1 =>
        /\ \A i \in 1..Len(sprite.effects) :
               LET f == sprite.effects[i]
               IN  f.kind = "flicker" =>
                       Visible(sprite) = ((f.cur_time \div f.interval) % 2 = 0)
        /\ \A i \in 1..Len(log) :
               (IsUpdateOf(i, "flicker") /\ IsFinished(log[i].e)) =>
                   Visible(sprite) = log[i].e.end_visibility

\* C4: after an update tick the attribute of the tween updated last in the tick
\* is initial + delta * min(elapsed, duration) / duration, with no rounding; from
\* 0 to 10 in 1.0 s it is 5 at 0.5 s; it is the target on the tick the tween
\* finishes, however far elapsed is past the duration.
C4_TweenWrites ==
    \A i \in 1..Len(log) :
        (/\ IsUpdateOf(i, "tween")
         /\ \A j \in (i + 1)..Len(log) : ~IsUpdateOf(j, "tween")) =>
            LET e == log[i].e
            IN  \A k \in 1..Len(e.attr_map) :
                    LET a == e.attr_map[k]
                        v == GetAttr(sprite, a.name)
                    IN  /\ v * e.duration
                             = a.v_ini * e.duration + a.v_diff * Min(e.cur_time, e.duration)
                        /\ (a.v_ini = 0 /\ a.v_diff = 10 * SubPx /\ e.duration = 2
                                /\ e.cur_time = 1) => v = 5 * SubPx
                        /\ IsFinished(e) => v = a.v_ini + a.v_diff

\* A tween from 0 to 10 has finished in a tick that took elapsed past its
\* duration, and x is 10.
C4_Witness ==
    /\ last.op = "update"
    /\ \E i \in 1..Len(log) :
           /\ IsUpdateOf(i, "tween")
           /\ log[i].e.cur_time > log[i].e.duration
           /\ log[i].e.attr_map[1].v_ini = 0
           /\ \A j \in (i + 1)..Len(log) : ~IsUpdateOf(j, "tween")
    /\ sprite.x = 10 * SubPx

\* C5: remove_effect raises nothing; remove_effect(e) for an e that is not in
\* the list leaves the list as it is; remove_effect() empties the list; neither
\* fires an on_complete.
C5_RemoveEffect ==
    [][ last'.op = "remove_effect" =>
            /\ last'.raised = "None"
            /\ fired' = fired
            /\ (Len(last'.args) = 1 /\ last'.args[1] \notin ActiveIds)
                   => sprite'.effects = sprite.effects
            /\ last'.args = <<>> => sprite'.effects = <<>>
            /\ EffectIds(sprite'.effects)
                   = ActiveIds \ {last'.args[i] : i \in 1..Len(last'.args)}
               \/ last'.args = <<>> ]_vars

\* remove_effect was called with an effect that is not the sprite's while the
\* sprite had effects, and they are still there.
C5_Witness ==
    /\ last.op = "remove_effect"
    /\ last.args = <<0>>
    /\ last.raised = "None"
    /\ sprite.effects # <<>>

\* C6 (as stated): no on_complete is fired for an effect that remove_effect has
\* removed from the sprite before.
C6_NoCallbackAfterRemoval ==
    \A i \in 1..Len(log) : log[i].ev = "on_complete" => ~log[i].was_cancelled

\* C7: an effect that is not cancelled stays in the list, unfired, through every
\* tick that leaves its elapsed time below its duration; the first tick that
\* takes its elapsed time to the duration or past it fires its on_complete once
\* and takes it out of the list; it never comes back nor fires again; and with
\* ticks of positive dt every effect is out of the list in the end.
C7_Lifecycle ==
    /\ [](\A i \in 1..Len(sprite.effects) :
              LET e == sprite.effects[i]
              IN  e.cur_time < e.duration /\ fired[e.id] = 0)
    /\ [](\A id \in DOMAIN fired : fired[id] <= 1)
    /\ [][ /\ EffectIds(sprite'.effects) \cap (1..started) \subseteq ActiveIds
           /\ last'.op # "update" => \A id \in DOMAIN fired : fired'[id] = fired[id] ]_vars
    /\ [][ last'.op = "update" =>
               \A i \in 1..Len(sprite.effects) :
                   LET e == sprite.effects[i]
                       t == e.cur_time + last'.args[1]
                   IN  e.id \notin cancelled' =>
                           IF t >= e.duration
                           THEN /\ e.id \notin EffectIds(sprite'.effects)
                                /\ fired'[e.id] =
                                       IF e.on_complete.cb = "None" THEN 0 ELSE 1
                           ELSE /\ fired'[e.id] = 0
                                /\ \E j \in 1..Len(sprite'.effects) :
                                       /\ sprite'.effects[j].id = e.id
                                       /\ sprite'.effects[j].cur_time = t ]_vars
    /\ \A id \in 1..MaxEffects : []<>(id \notin ActiveIds)

\* An effect with an on_complete has lived through a tick, has then finished in
\* the last tick without having been cancelled, has fired once and is gone.
C7_Witness ==
    /\ last.op = "update"
    /\ \E i \in 1..Len(log) :
           LET e == log[i].e
           IN  /\ log[i].ev = "on_complete"
               /\ e.cur_time > last.args[1]
               /\ e.cur_time - last.args[1] < e.duration
               /\ e.id \notin cancelled
               /\ e.id \notin ActiveIds
               /\ fired[e.id] = 1

---------------------------------------------------------------------------
(* Claims about the context of a sprite                                    *)

\* C9: set_context(parent) changes none of the values the sprite's accessors
\* return (x, y, position, rotation, scale, scale_x, scale_y, scroll_factor,
\* origin, offset, color, opacity, flip_x, flip_y), for any parent context.
C9_SetContextKeepsAttributes ==
    [][ last'.op = "set_context" => Attributes(sprite') = Attributes(sprite) ]_vars

\* set_context has been called on a sprite whose attributes have been written,
\* and the sprite is in another batch, group and camera set than at the start.
C9_Witness ==
    /\ last.op = "set_context"
    /\ nwrites = MaxWrites
    /\ Attributes(sprite) # Attributes(PNFSprite(Image, 0, 0))
    /\ sprite.context.batch = "batch1"
    /\ sprite.interfacer.batch = "batch1"
    /\ sprite.context.cameras = last.args.cameras
    /\ sprite.context.group = PNFGroup(last.args.group)

\* log[i] is the update in which a flicker finished, and no flicker was updated
\* after it in that tick
IsLastFlickerEnd(i) ==
    /\ IsUpdateOf(i, "flicker") /\ IsFinished(log[i].e)
    /\ \A j \in (i + 1)..Len(log) : ~IsUpdateOf(j, "flicker")

\* C16: the update of a flicker that brings its elapsed time to its duration or
\* past it sets the sprite's visibility to the flicker's end_visibility, whatever
\* the flicker toggled before and whatever the visibility was; after the tick the
\* sprite shows the end_visibility of the flicker that finished last in it.
C16_FlickerEnd ==
    /\ \A i \in 1..Len(sprite.effects), dt \in SpriteDtValues :
           LET f == sprite.effects[i]
           IN  (f.kind = "flicker" /\ f.cur_time + dt >= f.duration) =>
                   Visible(EffectUpdate(f, dt, sprite).s) = f.end_visibility
    /\ \A i \in 1..Len(log) :
           IsLastFlickerEnd(i) => Visible(sprite) = log[i].e.end_visibility

\* A flicker has finished in the last tick with its own toggle state the
\* opposite of its end_visibility, and the sprite shows the end_visibility.
C16_Witness ==
    /\ last.op = "update"
    /\ \E i \in 1..Len(log) :
           /\ IsLastFlickerEnd(i)
           /\ log[i].e.visible # log[i].e.end_visibility
           /\ log[i].e.next_toggle > log[i].e.interval
           /\ Visible(sprite) = log[i].e.end_visibility

\* The number of calls of callback ev the log holds for the effect id
CallsOf(l, ev, id) == Cardinality({j \in 1..Len(l) : l[j].ev = ev /\ l[j].e.id = id})

\* The effect id as its update in the tick of log l left it
AfterUpdate(l, id) ==
    l[CHOOSE j \in 1..Len(l) : l[j].ev = "update" /\ l[j].e.id = id].e

\* C17: in a tick a toggle calls on_toggle_on once if its state goes from off to
\* on in that tick and not at all otherwise, and on_toggle_off once if its state
\* goes from on to off and not at all otherwise (a callback that is None is not
\* called); the state after the tick is the computed one, and a tick in which the
\* computed state equals the state before calls nothing. An on call finds the
\* toggle off and leaves it on, an off call the reverse: the calls alternate.
C17_ToggleCallbacks ==
    [][ last'.op = "update" =>
          \A i \in 1..Len(sprite.effects) :
              LET e      == sprite.effects[i]
                  after  == AfterUpdate(log', e.id)
                  ons    == CallsOf(log', "on_toggle_on", e.id)
                  offs   == CallsOf(log', "on_toggle_off", e.id)
                  new_state ==
                      SinSign(e.cur_time + last'.args[1], e.interval) * e.invert > 0
              IN  e.kind = "toggle" =>
                      /\ after.cur_state = new_state
                      /\ ons = IF ~e.cur_state /\ after.cur_state
                                  /\ e.on_toggle_on.cb # "None" THEN 1 ELSE 0
                      /\ offs = IF e.cur_state /\ ~after.cur_state
                                   /\ e.on_toggle_off.cb # "None" THEN 1 ELSE 0
                      /\ new_state = e.cur_state => ons + offs = 0 ]_vars

\* A toggle started active has called on_toggle_on in the last tick: it was
\* switched off in a tick before, and time has passed in this one.
C17_Witness ==
    /\ last.op = "update" /\ last.args[1] > 0
    /\ \E j \in 1..Len(log) :
           /\ log[j].ev = "on_toggle_on"
           /\ log[j].e.invert = 1
           /\ log[j].e.cur_state
           /\ log[j].e.cur_time > log[j].e.interval

\* A start_tween, start_flicker or start_toggle call with a duration <= 0, or a
\* start_flicker or start_toggle call with an interval <= 0
RejectedStart ==
    /\ last'.op \in {"start_tween", "start_flicker", "start_toggle"}
    /\ \/ last'.args.duration <= 0
       \/ last'.op # "start_tween" /\ last'.args.interval <= 0

\* C18: start_tween, start_flicker and start_toggle with a duration <= 0, and
\* start_flicker and start_toggle with an interval <= 0, raise at the call and
\* leave the sprite, its list of effects included, as it was; assigning an empty
\* frame collection to frames raises before the frames, the animations or the
\* texture of the sprite change.
C18_ConfigurationErrors ==
    /\ [][ RejectedStart =>
             /\ last'.raised = "ValueError"
             /\ sprite'.effects = sprite.effects
             /\ sprite' = sprite ]_vars
    /\ [][ (last'.op = "frames" /\ Len(last'.args) = 0) =>
             /\ last'.raised = "ValueError"
             /\ sprite'.frames = sprite.frames
             /\ sprite'.animations = sprite.animations
             /\ sprite'.texture = sprite.texture
             /\ sprite' = sprite ]_vars

\* An empty frame collection was just refused on a sprite that has an animation
\* registered, frames other than those it was made with and two effects running.
C18_Witness ==
    /\ last.op = "frames" /\ Len(last.args) = 0 /\ last.raised = "ValueError"
    /\ sprite.animations # {}
    /\ Len(sprite.frames) = 2
    /\ Len(sprite.effects) = 2

\* What each channel of the interfacer holds when it is up to date with the
\* sprite's fields: the value of the vertex, once per vertex.
ChannelsOf(s) ==
    [translate     |-> Rep4(<<s.x, s.y>>),
     offset        |-> Rep4(s.offset),
     flip          |-> Rep4(<<s.flip_x, s.flip_y>>),
     scroll_factor |-> Rep4(s.scroll_factor),
     origin        |-> Rep4(s.origin),
     rotation      |-> Rep4(<<s.rotation>>),
     scale         |-> Rep4(<<s.scale * s.scale_x, s.scale * s.scale_y>>),
     colors        |-> Rep4(s.color \o <<s.opacity>>)]

\* C19: at the return of every attribute write (x, y, position, rotation, scale,
\* scale_x, scale_y, origin, offset, scroll_factor, color, opacity, rgba, flip_x,
\* flip_y), and of every set_context and frames assignment between them, each
\* channel of the interfacer holds the value derived from the sprite's fields:
\* translate = (x, y), scale = (scale*scale_x, scale*scale_y), colors = (color,
\* opacity), and so on.
C19_ChannelsInSync == sprite.interfacer.data = ChannelsOf(sprite)

\* rgba was written after the scale and the channels show both writes.
C19_Witness ==
    /\ last = Call("setattr", <<"rgba", <<0, 255, 0, 64>>>>, "None")
    /\ sprite.scale * sprite.scale_x > 1
    /\ sprite.interfacer.data.colors = Rep4(<<0, 255, 0, 64>>)
    /\ sprite.interfacer.data.scale # Rep4(<<1, 1>>)
    /\ nwrites = MaxWrites

\* The cameras of a context, as a set
CameraSet(context) == {context.cameras[i] : i \in 1..Len(context.cameras)}

\* C20: after the construction of the sprite and after every set_context call on
\* it, the cameras the interfacer holds a descriptor for are the cameras of the
\* sprite's context.
C20_DescriptorKeys ==
    DOMAIN sprite.interfacer.states = CameraSet(sprite.context)

\* ---------------------------------------------------------------------------
\* The order of the steps of one update
\* ---------------------------------------------------------------------------

LogIndices == 1..Len(log)

\* C21: in one PNFSprite.update(dt) the animation controller is advanced first,
\* then the movement, if there is one, moves the position, then every active
\* effect is updated, and only then the on_complete callbacks of the finished
\* effects fire and the finished effects are taken out: nothing is called on
\* an effect's completion before the last effect update of that tick.
C21_UpdateOrder ==
    last.op = "update" =>
        /\ Len(log) >= 1 /\ log[1].ev = "animation"
        /\ \A i \in LogIndices : log[i].ev = "animation" => i = 1
        /\ \A i \in LogIndices : log[i].ev = "movement" => i = 2
        /\ sprite.movement # None => Len(log) >= 2 /\ log[2].ev = "movement"
        /\ \A i, j \in LogIndices :
               /\ log[i].ev \in {"animation", "movement"}
               /\ log[j].ev \in {"update", "on_complete", "discard"}
               => i < j
        /\ \A i, j \in LogIndices :
               log[i].ev = "update" /\ log[j].ev \in {"on_complete", "discard"} => i < j

\* An update of a moving sprite with two effects, one of which finished and
\* had its on_complete called
C21_Witness ==
    /\ last.op = "update"
    /\ \E i \in LogIndices : log[i].ev = "movement"
    /\ Cardinality({i \in LogIndices : log[i].ev = "update"}) >= 2
    /\ \E i \in LogIndices : log[i].ev = "on_complete"

\* The effects that got an update call in the call logged in l, in call order
UpdatedIds(l) ==
    LET u == SelectSeq(l, LAMBDA x : x.ev = "update")
    IN  [k \in 1..Len(u) |-> u[k].e.id]

\* The effects of a list, in list order
ListIds(effects) == [k \in 1..Len(effects) |-> effects[k].id]

\* C22: in each update tick every effect that is in the sprite's list of active
\* effects at the start of the tick gets exactly one update call, in list order
\* and with no entry skipped (nothing leaves the list while it is iterated), and
\* each finished effect's on_complete is called while that effect is still in
\* the list.
C22_EveryEffectUpdatedOnce ==
    [][last'.op = "update" =>
          /\ UpdatedIds(log') = ListIds(sprite.effects)
          /\ \A i \in 1..Len(log') :
                 log'[i].ev = "on_complete" => ~log'[i].was_cancelled]_vars

\* ---------------------------------------------------------------------------
\* The debug pane
\* ---------------------------------------------------------------------------

\* The message the updating thread holds and has not written yet
InHand == IF pane.pc = "write" THEN <<pane.message>> ELSE <<>>

\* The last n entries of a sequence
LastOf(sq, n) == SubSeq(sq, Len(sq) - n + 1, Len(sq))

\* What the labels show when the messages of w were written to them
Shown(w, n) ==
    LET k == IF Len(w) < n THEN Len(w) ELSE n
    IN  LastOf(w, k) \o [i \in 1..(n - k) |-> 0]

\* No message handed to add_message is lost, duplicated or overtaken: the
\* messages written, the one in hand and the ones queued are, in this order,
\* the messages in the order they were handed in; the labels show the last
\* messages written, oldest first.
PaneKeepsMessages ==
    /\ pane.written \o InHand \o pane.queue = [m \in 1..pane.enqueued |-> m]
    /\ pane.labels = Shown(pane.written, Len(pane.labels))

\* C23: every message handed to add_message, from any thread and at any moment
\* of a running update, is written to a label exactly once by an update that
\* runs later, messages are written in the order they were handed in, and
\* add_message changes no label.
C23_MessagesWrittenOnce ==
    /\ []PaneKeepsMessages
    /\ [][last'.op = "add_message" =>
             /\ pane'.labels = pane.labels
             /\ pane'.insert_index = pane.insert_index
             /\ pane'.written = pane.written]_vars
    /\ \A m \in 1..MaxMessages :
           (pane.enqueued >= m) ~> (\E i \in 1..Len(pane.written) : pane.written[i] = m)

\* Messages were handed in while an update ran, the labels were all used and
\* bumped up, and every message has been written
C23_Witness ==
    /\ pane.enqueued = MaxMessages
    /\ Len(pane.written) = MaxMessages
    /\ pane.pc = "get"
    /\ pane.labels[1] # 1

\* ---------------------------------------------------------------------------
\* The scene stack
\* ---------------------------------------------------------------------------

\* Nothing requested of the game is left to apply
Applied ==
    /\ game.pending_scene_stack_removals = <<>>
    /\ game.pending_scene_stack_additions = <<>>
    /\ game.scheduled = <<>>

\* C24: scenes requested with push_scene enter the scene stack in the order
\* they were pushed, also when several were pushed before the same update: with
\* the pending additions applied, a scene pushed later is above every scene
\* pushed earlier, so the most recently pushed one is the topmost.
C24_PushOrder ==
    Applied =>
        \A i, j \in 1..Len(game.scene_stack) :
            i < j => game.scene_stack[i].pushed < game.scene_stack[j].pushed

\* C25: once the removals and additions caused by set_scene(S) have been
\* applied (no other request was made after it), the scene stack holds exactly
\* one scene, the instance made for that set_scene call.
C25_SetSceneLeavesOne ==
    (Applied /\ game.set_is_latest) =>
        /\ Len(game.scene_stack) = 1
        /\ game.scene_stack[1].pushed = game.last_set

\* C26: remove_scene(scene) raises ValueError when the scene is not in the
\* scene stack; a scene that is in the stack is gone from it, wherever it sat,
\* after the update that follows.
C26_RemoveScene ==
    [][/\ (last'.op = "remove_scene" /\ ~InStack(game.scene_stack, last'.args[1]))
           => last'.raised = "ValueError"
       /\ last'.op = "game.update" =>
              \A i \in 1..Len(game.pending_scene_stack_removals) :
                  ~InStack(game'.scene_stack, game.pending_scene_stack_removals[i])]_vars

\* ---------------------------------------------------------------------------
\* The hold timer of a character
\* ---------------------------------------------------------------------------

\* The hold timer after the first half of an update(dt) from the state before
Advanced(dt) ==
    IF HasTag(character, "SING") \/ HasTag(character, "MISS")
    THEN character.hold_timer + dt
    ELSE character.hold_timer

\* C28: the hold timer advances by dt only in the updates where the current
\* animation is tagged SING or MISS; in the update where it reaches
\* hold_timeout * step_duration * 0.001 seconds with dont_idle false it is
\* reset to 0 and dance() is called exactly once, so after every update with
\* dont_idle false the timer is below that bound; with dont_idle true update
\* never calls dance().
C28_HoldTimer ==
    [][last'.op = "character.update" =>
          LET t == Advanced(last'.args[1])
              reached == t >= HoldLimit(character) /\ ~character.dont_idle
          IN  /\ reached => character'.hold_timer = 0 /\ character'.danced = 1
              /\ ~reached => character'.hold_timer = t /\ character'.danced = 0
              /\ ~character'.dont_idle => character'.hold_timer < HoldLimit(character')
              /\ character'.dont_idle => character'.danced = 0]_vars

\* An update in which the timer of a singing character reached the bound and
\* the character danced
C28_Witness ==
    /\ last.op = "character.update"
    /\ last.args[1] > 0
    /\ character.danced = 1
    /\ character.hold_timer = 0
    /\ character.step_duration = 250

\* ---------------------------------------------------------------------------
\* Sprite containers
\* ---------------------------------------------------------------------------

\* C29: a sprite added to a container is shifted by the container's position,
\* is shifted by the position delta on every later write to the container's x
\* or y, and is shifted back on remove: a member sprite that was not moved
\* individually has, after remove, exactly the x and y it had before add,
\* whatever container moves happened in between.
C29_AddRemoveRoundTrip ==
    [][/\ last'.op = "container.add" =>
              LET i == last'.args[1]
              IN  /\ container'.members[i].x = container.members[i].x + container.x
                  /\ container'.members[i].y = container.members[i].y + container.y
       /\ last'.op = "container.x" =>
              \A i \in container.sprites :
                  container'.members[i].x
                      = container.members[i].x + (last'.args[1] - container.x)
       /\ last'.op = "container.y" =>
              \A i \in container.sprites :
                  container'.members[i].y
                      = container.members[i].y + (last'.args[1] - container.y)
       /\ (last'.op = "container.remove" /\ last'.raised = "None") =>
              LET i == last'.args[1]
              IN  <<container'.members[i].x, container'.members[i].y>>
                      = container.before[i]]_vars

\* ---------------------------------------------------------------------------
\* The registry
\* ---------------------------------------------------------------------------

\* The entries of the registry that were added under the source
EntriesOf(r, source_name) == {n \in DOMAIN r.dict : r.dict[n] = source_name}

\* C27: purge_source(source) removes every entry that was added under that
\* source and raises KeyError only when the source was never introduced, also
\* when some of the source's entries were removed one by one with remove()
\* before.
C27_PurgeSource ==
    [][last'.op = "registry.purge_source" =>
          LET source_name == last'.args[1]
          IN  /\ last'.raised = "KeyError" => source_name \notin DOMAIN registry.sources
              /\ source_name \in DOMAIN registry.sources =>
                     EntriesOf(registry', source_name) = {}]_vars

\* ---------------------------------------------------------------------------
\* The base box of a controller
\* ---------------------------------------------------------------------------

\* The box of the first frame of an animation
FirstFrameBox(animation) ==
    <<animation.frames[1].frame_info[3] - animation.frames[1].frame_info[1],
      animation.frames[1].frame_info[4] - animation.frames[1].frame_info[2]>>

\* An add call that returned on a controller with no base box sets the box of
\* the first frame of the animation added
FirstAddSetsBox ==
    (last'.op = "add" /\ last'.raised = "None" /\ anim.base_box = None) =>
        anim'.base_box = FirstFrameBox(anim'.animations[last'.args.name])

HalfRounded(v, twice) == \E r \in {0, 1} : 2 * v = twice + r

\* off is (x - (bw - w)/2, y - (bh - h)/2) rounded to integers, for the frame
\* rectangle fi = (x, y, w, h) and the box bb = (bw, bh)
Aligned(fi, bb, off) ==
    /\ HalfRounded(off[1], 2 * fi[1] - (bb[1] - fi[3]))
    /\ HalfRounded(off[2], 2 * fi[2] - (bb[2] - fi[4]))

\* update(dt) is called, returns and has signalled a new frame
UpdateFrameChange ==
    /\ last'.op = "update" /\ last'.raised = "None"
    /\ Update(anim, last'.args[1]).on_new_frame

\* C31: whenever play or update signals a frame, the alignment offset stored for
\* it is (x - (bw - w)/2, y - (bh - h)/2) rounded to integers, for the frame's
\* rectangle (x, y, w, h) and the base box (bw, bh), odd differences included, and
\* the delta emitted is the alignment offset stored before minus the new one.
C31_AlignmentOffset ==
    [][ (PlaySwitchCall \/ UpdateFrameChange) =>
          LET stored == IF last'.op = "play" THEN Vec2Zero ELSE anim.frame_offset
          IN  /\ Aligned(current_frame(anim').frame_info, anim'.base_box,
                         anim'.frame_offset)
              /\ sinceQuery'[Len(sinceQuery')] = VSub(stored, anim'.frame_offset) ]_vars

\* update has signalled a later frame whose width and height differ from the base
\* box by odd numbers, one of them negative, and the delta emitted is not zero
C31_Witness ==
    /\ last.op = "update" /\ last.raised = "None"
    /\ anim.current # None /\ anim.frame_idx > 0
    /\ (anim.base_box[1] - current_frame(anim).frame_info[3]) % 2 = 1
    /\ (anim.base_box[2] - current_frame(anim).frame_info[4]) % 2 = 1
    /\ anim.base_box[1] < current_frame(anim).frame_info[3]
    /\ Aligned(current_frame(anim).frame_info, anim.base_box, anim.frame_offset)
    /\ sinceQuery # <<>>
    /\ sinceQuery[Len(sinceQuery)] # Vec2Zero

\* ---------------------------------------------------------------------------
\* The cumulative offset of a controller
\* ---------------------------------------------------------------------------

\* The controller is as add calls alone leave it: nothing was played or is pending
Unplayed ==
    /\ anim.animations # << >>
    /\ anim = [AnimationController EXCEPT !.animations = anim.animations,
                                          !.base_box = anim.base_box]

\* The sum of the offset deltas that play(names[1]), play(names[2]), ... produce
\* on the controller c
RECURSIVE TotalOf(_, _)
TotalOf(c, names) ==
    IF names = << >>
    THEN Vec2Zero
    ELSE LET deltas == PlayDeltas(c, Head(names), FALSE)
             sum    == IF deltas = << >> THEN Vec2Zero ELSE SumV(deltas)
         IN  VAdd(sum, TotalOf(Play(c, Head(names), FALSE).c, Tail(names)))

\* The sequences of 1..MaxOthers names of S
SequencesOf(S) == UNION { [1..n -> S] : n \in 1..MaxOthers }

\* C32: on a controller with registered animations on which nothing was played,
\* playing A, then any sequence of other registered animations, then A again
\* produces offset deltas with the same sum as playing A alone.
C32_PathIndependent ==
    Unplayed =>
        \A A \in DOMAIN anim.animations :
            \A others \in SequencesOf(DOMAIN anim.animations \ {A}) :
                TotalOf(anim, <<A>> \o others \o <<A>>) = TotalOf(anim, <<A>>)

\* ---------------------------------------------------------------------------
\* play with a name that is not registered
\* ---------------------------------------------------------------------------

\* C33: play(name) with a name that was never registered raises and leaves the
\* controller as it was: current animation and its name, playing flag, frame
\* index, stored frame offset and both pending slots, also when another
\* animation was playing.
C33_PlayUnregistered ==
    [][ (last'.op = "play" /\ last'.args[1] \notin DOMAIN anim.animations) =>
          /\ last'.raised # "None"
          /\ anim'.current = anim.current
          /\ anim'.current_name = anim.current_name
          /\ anim'.playing = anim.playing
          /\ anim'.frame_idx = anim.frame_idx
          /\ anim'.frame_offset = anim.frame_offset
          /\ anim'.new_offset = anim.new_offset
          /\ anim'.new_texture = anim.new_texture ]_vars

\* ---------------------------------------------------------------------------
\* What set_context does again
\* ---------------------------------------------------------------------------

\* The sequence of calls has one of the name
Calls(ops, name) == \E i \in 1..Len(ops) : ops[i].call = name

\* C34: set_context(parent) builds descriptors only when the parent's batch is
\* not the sprite's, makes a new group only when the parent's cameras are not
\* the sprite's or the parent's group is not the parent of the sprite's group,
\* and migrates only when one of these holds; a second set_context with the
\* same parent builds no descriptor, makes no group, does not migrate and
\* leaves the sprite as it is.
C34_SetContextGated ==
    [][ last'.op = "set_context" =>
          LET parent == last'.args
              ops    == SetContextCalls(sprite, parent)
              batch  == parent.batch # sprite.context.batch
              group  == \/ parent.cameras # sprite.context.cameras
                        \/ parent.group # sprite.context.group.parent
          IN  /\ Calls(ops, "_build_gl_state") => batch
              /\ Calls(ops, "PNFGroup") => group
              /\ Calls(ops, "migrate") => (batch \/ group)
              /\ SetContextCalls(sprite', parent) = << >>
              /\ SetContext(sprite', parent) = sprite' ]_vars

\* set_context has moved the sprite to the other batch, under a group of the
\* parent's and to two cameras, and the same call again would call nothing
C34_Witness ==
    /\ last.op = "set_context"
    /\ last.args.batch = "batch1" /\ last.args.cameras = <<"main", "hud">>
    /\ sprite.context.batch = "batch1"
    /\ sprite.context.cameras = <<"main", "hud">>
    /\ sprite.context.group.parent = last.args.group
    /\ sprite.interfacer.group = sprite.context.group
    /\ SetContextCalls(sprite, last.args) = << >>

\* ---------------------------------------------------------------------------
\* The lists of scenes to update and to draw
\* ---------------------------------------------------------------------------

\* The places of the scenes of the stack whose attribute scene_attr is false
Blocking(stack, scene_attr) ==
    { i \in 1..Len(stack) : ~SceneClasses[stack[i].cls][scene_attr] }

\* The stack from its topmost scene whose scene_attr is false on, the whole
\* stack when there is none
FromTopmostBlocking(stack, scene_attr) ==
    IF Blocking(stack, scene_attr) = {}
    THEN stack
    ELSE LET top == CHOOSE i \in Blocking(stack, scene_attr) :
                        \A j \in Blocking(stack, scene_attr) : j <= i
         IN  SubSeq(stack, top, Len(stack))

\* C35: the update list (the draw list) of the game is the scene stack from its
\* topmost scene whose update_passthrough (draw_passthrough) is false on, and
\* the whole stack when every scene passes through: the topmost scene is in
\* both lists and no scene below a scene that does not pass through is.
C35_PassthroughLists ==
    /\ game.scenes_to_update = FromTopmostBlocking(game.scene_stack, "update_passthrough")
    /\ game.scenes_to_draw = FromTopmostBlocking(game.scene_stack, "draw_passthrough")

\* ---------------------------------------------------------------------------
\* Requests made of the game while it updates its scenes
\* ---------------------------------------------------------------------------

\* The scene was made by a Game.update and waits for the clock to add it
Scheduled(scene) ==
    \E i \in 1..Len(game.scheduled) : InStack(game.scheduled[i], scene)

\* C36: push_scene, remove_scene and set_scene change neither the scene stack
\* nor the update list nor the list a running Game.update walks, also when they
\* are called during that walk; the scenes Game.update calls update on are in
\* the stack, none of them was removed and destroyed by a Game.update, that one
\* or an earlier one, and none was made by that Game.update.
C36_DeferredChanges ==
    /\ [][ last'.op \in {"push_scene", "remove_scene", "set_scene"} =>
             /\ game'.scene_stack = game.scene_stack
             /\ game'.scenes_to_update = game.scenes_to_update
             /\ game'.iterating = game.iterating
             /\ game'.idx = game.idx ]_vars
    /\ [][ last'.op = "scene.update" =>
             /\ InStack(game.scene_stack, last'.args[1])
             /\ last'.args[1].id \notin game.destroyed
             /\ ~Scheduled(last'.args[1]) ]_vars

\* A scene was removed and destroyed by the Game.update that is running, and the
\* scene it is about to update has asked for its own removal
C36_Witness ==
    /\ last.op = "remove_scene"
    /\ game.idx > 0
    /\ game.destroyed # {}
    /\ last.args[1] = game.iterating[game.idx]
    /\ InStack(game.pending_scene_stack_removals, last.args[1])
    /\ InStack(game.scene_stack, last.args[1])

\* ---------------------------------------------------------------------------
\* The end of a toggle
\* ---------------------------------------------------------------------------

\* C37: the update in which a toggle finishes (its elapsed time reaches its
\* duration) leaves the toggle in the end state it was started with
\* (end_status, stored as end_active).
C37_ToggleEndState ==
    \A i \in 1..Len(log) :
        (IsUpdateOf(i, "toggle") /\ IsFinished(log[i].e)) =>
            log[i].e.cur_state = log[i].e.end_active

\* ---------------------------------------------------------------------------
\* Removing a sprite that is not in the container
\* ---------------------------------------------------------------------------

\* C38: remove(sprite) with a sprite that is not a member of the container
\* raises and changes nothing: the sprite's x, y and context and the members of
\* the container are as before the call.
C38_RemoveNonMember ==
    [][ (last'.op = "container.remove" /\ last'.args[1] \notin container.sprites) =>
          LET i == last'.args[1]
          IN  /\ last'.raised # "None"
              /\ container'.members[i].x = container.members[i].x
              /\ container'.members[i].y = container.members[i].y
              /\ container'.members[i].context = container.members[i].context
              /\ container'.sprites = container.sprites ]_vars

\* ---------------------------------------------------------------------------
\* The sources of the registry
\* ---------------------------------------------------------------------------

\* The sources whose name set holds the name
SourcesOf(r, name) == {src \in DOMAIN r.sources : name \in r.sources[src]}

\* C39: every name present in the registry is in the name set of exactly one
\* source, and purge_source(s) leaves every entry that another source has
\* registered in the registry.
C39_PurgeOnlyOwn ==
    /\ [](\A name \in DOMAIN registry.dict :
              Cardinality(SourcesOf(registry, name)) = 1)
    /\ [][ last'.op = "registry.purge_source" =>
             \A name \in DOMAIN registry.dict :
                 registry.dict[name] # last'.args[1] =>
                     /\ name \in DOMAIN registry'.dict
                     /\ registry'.dict[name] = registry.dict[name] ]_vars

=============================================================================
